---- MODULE Spec2Model ----
(***************************************************************************)
(* Model of the marshal48 extension of okirch/minibuild: the buffered      *)
(* reader/writer, the fixnum codec, the Marshal 4.8 decoder with its       *)
(* symbol/object/ephemeral tables, the projection to host values and the   *)
(* encoder; and of the Gemfile evaluator of its bundler extension.         *)
(*                                                                         *)
(* Spec       the decoder run on a byte source whose bytes are chosen by   *)
(*            the environment one read at a time, followed by projection,  *)
(*            re-encoding and a second decode of the bytes written.        *)
(* SpecFixnum the fixnum decoder and encoder applied to bounded inputs.    *)
(* SpecEncode the encoder called on bounded instance graphs, any number of *)
(*            times in one process, each output decoded again.             *)
(* SpecGemfile the Gemfile evaluator under a context built by the host.    *)
(* SpecInclude eval_gemfile over a fixed set of files.                     *)
(* SpecTrace  the trace states pushed and popped around every decode.      *)
(* SpecRead   the buffered reader alone, on a source that cuts its reads   *)
(*            anywhere; SpecReadFair adds that a read in progress goes on. *)
(* SpecIndex  the hash trie that indexes the strings of one conversion.    *)
(*                                                                         *)
(* The trace frames pushed and popped around every value by                *)
(* __ruby_unmarshal_next_instance_logwrap carry no data of the decoded     *)
(* graph; they are not part of the state of these specifications.          *)
(***************************************************************************)
EXTENDS Integers, Sequences, FiniteSets, TLC

VARIABLES
    file,        \* the host io object: bytes still to come and end-of-file state
    reader,      \* struct ruby_iobuf of the reading ruby_io: data, pos (count = Len(data))
    consumed,    \* bytes handed to the decoder so far, in order
    stack,       \* the C call stack of the decoder, innermost frame last
    heap,        \* every ruby_instance_t allocated in the current context
    symbols,     \* ruby_context.symbols
    objects,     \* ruby_context.objects
    ephemerals,  \* ruby_context.emphemerals
    corrupt,     \* instances whose first word was decremented by Py_DECREF
    status,      \* where the current call is: "sig", "run", "ok", "error", "hang",
                 \* "crash", and for the host "returned", "raised"
    root,        \* the instance returned by marshal48_unmarshal_io (0 = NULL)
    log,         \* what the last decoder step did (fixnum read, reference resolved, ...)
    round,       \* 1: decoding the source document, 2: decoding the bytes written back
    phase,       \* "decode", "host", "written", "fixnum"
    host,        \* host value returned by the current decode
    host1,       \* host value returned by the first decode
    doc1,        \* bytes the first decode consumed
    out,         \* bytes written to the output io object
    mok,         \* return value of marshal48_marshal_io
    e_sym_id,    \* static int e_sym_id of ruby_marshal_string
    fx,          \* SpecFixnum: the experiment record
    encoding,    \* SpecEncode: the encode calls made so far and the last one
    placed,      \* the host object at every position of the last projection
    bundler_ctx, \* SpecGemfile: the bundler_context_t handed to the parser
    ps,          \* SpecGemfile: gemfile_parser_state and the C frames above it
    gem,         \* SpecGemfile: the bundler_gem_t added by the last gem statement
    gemf,        \* SpecGemfile: the bundler_gemfile_t being filled (its source)
    files,       \* SpecInclude: the statements of every file that exists
    evals,       \* SpecInclude: the __bundler_gemfile_eval calls in progress
    tracing,     \* SpecTrace: marshal->tracing, the trace states and the lines printed
    rd,          \* SpecRead: a ruby_io over a source that may return short reads
    dict         \* SpecIndex: the ruby_instancedict of the string instances

inclvars == <<files, evals>>

extvars == <<inclvars, tracing, rd, dict>>

vars == <<file, reader, consumed, stack, heap, symbols, objects, ephemerals,
          corrupt, status, root, log, round, phase, host, host1, doc1, out,
          mok, e_sym_id, fx, encoding, placed, bundler_ctx, ps, gem, gemf, extvars>>

decvars == <<file, reader, consumed, stack, heap, symbols, objects, ephemerals,
             corrupt, status, root, log, round, phase, host, host1, doc1, out,
             mok, e_sym_id, encoding, placed, bundler_ctx, ps, gem, gemf, extvars>>

gemvars == <<bundler_ctx, ps, gem, gemf, extvars>>

(***************************************************************************)
(* Bounds                                                                  *)
(***************************************************************************)
MaxInput == 2        \* bytes the environment appends to the head of a document
MaxChunk == 1        \* longest chunk one read() of the environment returns
FixFollow == 4       \* SpecFixnum: bytes that follow the first byte of a fixnum

(***************************************************************************)
(* Program constants                                                       *)
(***************************************************************************)
BufSize == 1024
NULL    == 0
RUBY_READER_EOF == -1

TagTrue == 84
TagFalse == 70
TagNone == 48
TagInt == 105
TagSymbol == 58
TagSymbolReference == 59
TagObjectReference == 64
TagString == 34
TagArray == 91
TagHash == 123
TagGenericObject == 111
TagUserDefined == 117
TagUserMarshal == 85
TagObjectWithInstanceVars == 73

Min(a, b) == IF a < b THEN a ELSE b

(***************************************************************************)
(* The byte source.  A file whose content is fixed (rest) is read like a   *)
(* regular file; otherwise the environment supplies up to MaxChunk bytes   *)
(* per read while its budget lasts, or reports end of file.                *)
(***************************************************************************)
Bytes == {0, 4, 6, 250,
          TagTrue, TagNone, TagInt, TagSymbol, TagSymbolReference,
          TagObjectReference, TagString, TagArray, TagHash, TagGenericObject,
          TagUserDefined, TagUserMarshal, TagObjectWithInstanceVars, TagFalse}

SeqsOf(S, n) == UNION {[1..k -> S] : k \in 1..n}

Take(s, n) == SubSeq(s, 1, Min(n, Len(s)))
Drop(s, n) == SubSeq(s, Min(n, Len(s)) + 1, Len(s))

\* how many bytes one read(n) may return while fixed content is left: a
\* regular file returns all it has up to n; a source marked short (a pipe,
\* a socket, any object with a read method) may return any part of it
ReadSizes(f, n) ==
    IF "short" \in DOMAIN f THEN 1..Min(n, Len(f.rest)) ELSE {n}

FileRead(f, n) ==
    IF f.rest # <<>>
    THEN {[chunk |-> Take(f.rest, k), f |-> [f EXCEPT !.rest = Drop(f.rest, k)]] :
              k \in ReadSizes(f, n)}
    ELSE {[chunk |-> c, f |-> [f EXCEPT !.budget = f.budget - Len(c)]] :
              c \in SeqsOf(Bytes, Min(Min(n, MaxChunk), f.budget))}
         \cup {[chunk |-> <<>>, f |-> [f EXCEPT !.budget = 0]]}

\* An io state as the operators below thread it: the file, the buffer and
\* the bytes delivered so far.
IoState(f, r, c) == [f |-> f, data |-> r.data, pos |-> r.pos, seen |-> c]

ruby_io_fillbuf(io) ==
    {[io EXCEPT !.f = o.f, !.data = o.chunk, !.pos = 0] : o \in FileRead(io.f, BufSize)}

\* __ruby_io_nextc returning the first byte of a new buffer without moving
\* past it
nextc_refill_keeps_pos(io) ==
    IF io.pos >= Len(io.data)
    THEN {IF Len(j.data) = 0
          THEN [c |-> RUBY_READER_EOF, io |-> j]
          ELSE [c |-> j.data[1],
                io |-> [j EXCEPT !.seen = Append(j.seen, j.data[1])]]
          : j \in ruby_io_fillbuf(io)}
    ELSE {[c |-> io.data[io.pos + 1],
           io |-> [io EXCEPT !.pos = io.pos + 1,
                             !.seen = Append(io.seen, io.data[io.pos + 1])]]}

\* __ruby_io_nextc: the set of possible results [c, io]; c = -1 at end of file
ruby_io_nextc(io) ==
    IF io.pos >= Len(io.data)
    THEN {IF Len(j.data) = 0
          THEN [c |-> RUBY_READER_EOF, io |-> j]
          ELSE [c |-> j.data[1],
                io |-> [j EXCEPT !.pos = 1, !.seen = Append(j.seen, j.data[1])]]
          : j \in ruby_io_fillbuf(io)}
    ELSE {[c |-> io.data[io.pos + 1],
           io |-> [io EXCEPT !.pos = io.pos + 1,
                             !.seen = Append(io.seen, io.data[io.pos + 1])]]}

\* ruby_io_nextw: count bytes, little endian; results [ok, v, io]
RECURSIVE ruby_io_nextw(_, _, _, _)
ruby_io_nextw(io, count, shift, acc) ==
    IF count = 0
    THEN {[ok |-> TRUE, v |-> acc, io |-> io]}
    ELSE UNION {IF r.c < 0
                THEN {[ok |-> FALSE, v |-> acc, io |-> r.io]}
                ELSE ruby_io_nextw(r.io, count - 1, shift + 8, acc + r.c * (2 ^ shift))
                : r \in ruby_io_nextc(io)}

(***************************************************************************)
(* Fixnum codec                                                            *)
(***************************************************************************)
\* ruby_unmarshal_next_fixnum with the default branch computing cc - 0x80 - 5
next_fixnum_offset_swapped(io) ==
    UNION {IF r.c < 0 THEN {[ok |-> FALSE, v |-> 0, io |-> r.io]}
           ELSE IF r.c = 0 THEN {[ok |-> TRUE, v |-> 0, io |-> r.io]}
           ELSE IF r.c \in {1, 2, 3} THEN ruby_io_nextw(r.io, r.c, 0, 0)
           ELSE IF r.c = 255
                THEN {IF q.c < 0 THEN [ok |-> FALSE, v |-> 0, io |-> q.io]
                      ELSE [ok |-> TRUE, v |-> 1 - q.c, io |-> q.io]
                      : q \in ruby_io_nextc(r.io)}
           ELSE IF r.c \in {254, 253, 252}
                THEN {[ok |-> FALSE, v |-> 0, io |-> r.io]}
           ELSE IF r.c < 128 THEN {[ok |-> TRUE, v |-> r.c - 5, io |-> r.io]}
           ELSE {[ok |-> TRUE, v |-> r.c - 128 - 5, io |-> r.io]}
           : r \in ruby_io_nextc(io)}

\* ruby_unmarshal_next_fixnum: results [ok, v, io]
ruby_unmarshal_next_fixnum(io) ==
    UNION {IF r.c < 0 THEN {[ok |-> FALSE, v |-> 0, io |-> r.io]}
           ELSE IF r.c = 0 THEN {[ok |-> TRUE, v |-> 0, io |-> r.io]}
           ELSE IF r.c \in {1, 2, 3} THEN ruby_io_nextw(r.io, r.c, 0, 0)
           ELSE IF r.c = 255
                THEN {IF q.c < 0 THEN [ok |-> FALSE, v |-> 0, io |-> q.io]
                      ELSE [ok |-> TRUE, v |-> 1 - q.c, io |-> q.io]
                      : q \in ruby_io_nextc(r.io)}
           ELSE IF r.c \in {254, 253, 252}
                THEN {[ok |-> FALSE, v |-> 0, io |-> r.io]}
           ELSE IF r.c < 128 THEN {[ok |-> TRUE, v |-> r.c - 5, io |-> r.io]}
           ELSE {[ok |-> TRUE, v |-> 128 - r.c - 5, io |-> r.io]}
           : r \in ruby_io_nextc(io)}

\* the bytes[] loop of ruby_marshal_fixnum: least significant byte first
RECURSIVE LEBytes(_)
LEBytes(n) == IF n = 0 THEN <<>> ELSE <<n % 256>> \o LEBytes(n \div 256)

\* ruby_marshal_fixnum: [ok, bytes] where bytes is what reached the writer
ruby_marshal_fixnum(fixnum) ==
    IF fixnum = 0 THEN [ok |-> TRUE, bytes |-> <<0>>]
    ELSE IF fixnum >= 0
    THEN IF fixnum < 128 - 5 THEN [ok |-> TRUE, bytes |-> <<fixnum + 5>>]
         ELSE IF fixnum < 256 THEN [ok |-> TRUE, bytes |-> <<1, fixnum>>]
         ELSE IF Len(LEBytes(fixnum)) > 4 THEN [ok |-> FALSE, bytes |-> <<>>]
         ELSE [ok |-> TRUE, bytes |-> <<Len(LEBytes(fixnum))>> \o LEBytes(fixnum)]
    ELSE [ok |-> FALSE, bytes |-> <<>>]

\* ruby_io_next_byteseq: the loop that collects count bytes across refills.
\* count is an unsigned int, so a negative length is a huge one.  A pass
\* that finds the buffer empty after the refill copies nothing and leaves
\* every variable of the loop as it was: the loop then repeats that pass
\* for ever ("hang").  Results [res, bytes, io].
RECURSIVE ruby_io_next_byteseq(_, _, _)
ruby_io_next_byteseq(io, count, seq) ==
    IF ~(count < 0 \/ Len(seq) < count)
    THEN {[res |-> "ok", bytes |-> seq, io |-> io]}
    ELSE UNION {
           LET avail == Len(j.data) - j.pos
               copy  == IF count < 0 THEN avail ELSE Min(count - Len(seq), avail)
               got   == SubSeq(j.data, j.pos + 1, j.pos + copy)
           IN IF copy = 0
              THEN {[res |-> "hang", bytes |-> seq, io |-> j]}
              ELSE ruby_io_next_byteseq(
                       [j EXCEPT !.pos = j.pos + copy, !.seen = j.seen \o got],
                       count, seq \o got)
           : j \in (IF io.pos >= Len(io.data) THEN ruby_io_fillbuf(io) ELSE {io})}

\* a C string: the bytes before the first NUL
RECURSIVE CStr(_)
CStr(b) == IF b = <<>> \/ b[1] = 0 THEN <<>> ELSE <<b[1]>> \o CStr(Tail(b))

(***************************************************************************)
(* Instances.  A reference is an index into heap; the three static         *)
(* instances have references of their own.                                 *)
(***************************************************************************)
ruby_True  == -1
ruby_False == -2
ruby_None  == -3

Statics == {ruby_True, ruby_False, ruby_None}

\* struct ruby_instance and the fields of the types derived from it
Instance(type) ==
    [type |-> type, regkind |-> "none", regid |-> -1, marshal_id |-> -1,
     num |-> 0, str |-> <<>>, items |-> <<>>, keys |-> <<>>, vals |-> <<>>,
     data |-> NULL, bytes |-> <<>>]

\* the .registration member of each ruby_type_t
TypeRegistration(type) ==
    CASE type = "Symbol" -> "symbol"
      [] type \in {"String", "Array", "Hash", "GenericObject"} -> "object"
      [] OTHER -> "ephemeral"

\* the .base_type member of each ruby_type_t
BaseType(type) ==
    IF type \in {"UserDefined", "UserMarshal"} THEN "GenericObject" ELSE "none"

\* the op of an instance, or of a static one
TypeOf(m, r) ==
    IF r \in {ruby_True, ruby_False} THEN "Bool"
    ELSE IF r = ruby_None THEN "None"
    ELSE m.heap[r].type

\* __ruby_instance_check_type: walks the base types
RECURSIVE IsA(_, _)
IsA(self_type, type) ==
    IF self_type = "none" THEN FALSE
    ELSE IF self_type = type THEN TRUE
    ELSE IsA(BaseType(self_type), type)

\* prepends instead of appending
array_prepend(array, item) == <<item>> \o array

ruby_array_append(array, item) == Append(array, item)

\* looks the index up from the end of the array
array_get_from_end(array, index) ==
    IF index < 0 \/ index >= Len(array) THEN NULL ELSE array[Len(array) - index]

\* the index arrives as an unsigned int: a negative long is out of range
ruby_array_get(array, index) ==
    IF index < 0 \/ index >= Len(array) THEN NULL ELSE array[index + 1]

\* the registration loop of __ruby_instance_register
RECURSIVE RegistrationOf(_)
RegistrationOf(type) ==
    IF type = "none" THEN "ephemeral"
    ELSE IF TypeRegistration(type) # "ephemeral" THEN TypeRegistration(type)
    ELSE RegistrationOf(BaseType(type))

__ruby_instance_register(m, ref) ==
    LET kind  == RegistrationOf(m.heap[ref].type)
        array == CASE kind = "symbol" -> m.symbols
                   [] kind = "object" -> m.objects
                   [] OTHER -> m.ephemerals
        h     == [m.heap EXCEPT ![ref].regkind = kind, ![ref].regid = Len(array)]
        a2    == ruby_array_append(array, ref)
    IN CASE kind = "symbol" -> [m EXCEPT !.heap = h, !.symbols = a2]
         [] kind = "object" -> [m EXCEPT !.heap = h, !.objects = a2]
         [] OTHER -> [m EXCEPT !.heap = h, !.ephemerals = a2]

\* the new instance is the last one of the heap of the result
__ruby_instance_new(m, inst) ==
    __ruby_instance_register([m EXCEPT !.heap = Append(@, inst)], Len(m.heap) + 1)

Newest(m) == Len(m.heap)

\* ruby_instance_as_string: [ok, s]
ruby_instance_as_string(m, self) ==
    IF TypeOf(m, self) \in {"String", "Symbol"}
    THEN [ok |-> TRUE, s |-> m.heap[self].str]
    ELSE [ok |-> FALSE, s |-> <<>>]

\* ruby_String_set_var: only the variable E, holding a Boolean, is accepted
ruby_String_set_var(m, self, key, value) ==
    IF TypeOf(m, key) # "Symbol" THEN FALSE
    ELSE IF m.heap[key].str # <<69>> THEN FALSE
    ELSE value \in {ruby_True, ruby_False} \ m.corrupt

\* a set_var that leaves a key alone once the object has it
set_var_first_wins(m, self, key, value) ==
    LET type == TypeOf(m, self)
    IN IF type = "String"
       THEN [ok |-> ruby_String_set_var(m, self, key, value), m |-> m]
       ELSE IF ~IsA(type, "GenericObject") THEN [ok |-> FALSE, m |-> m]
       ELSE IF \E i \in 1..Len(m.heap[self].keys) : m.heap[self].keys[i] = key
       THEN [ok |-> TRUE, m |-> m]
       ELSE [ok |-> TRUE,
             m |-> [m EXCEPT !.heap[self].keys = ruby_array_append(@, key),
                             !.heap[self].vals = ruby_array_append(@, value)]]

\* ruby_instance_set_var: [ok, m]; the first set_var along the base types
ruby_instance_set_var(m, self, key, value) ==
    LET type == TypeOf(m, self)
    IN IF type = "String"
       THEN [ok |-> ruby_String_set_var(m, self, key, value), m |-> m]
       ELSE IF IsA(type, "GenericObject")
       THEN [ok |-> TRUE,
             m |-> [m EXCEPT !.heap[self].keys = ruby_array_append(@, key),
                             !.heap[self].vals = ruby_array_append(@, value)]]
       ELSE [ok |-> FALSE, m |-> m]


(***************************************************************************)
(* The decoder.  A machine m gathers what one decoder step reads and       *)
(* writes.  m.stack holds one frame per C function that is waiting for a   *)
(* nested ruby_unmarshal_next_instance to return.  A step runs one call of *)
(* ruby_unmarshal_next_instance up to the next nested call; when the call  *)
(* returns, Return resumes the callers for as long as they return too.     *)
(* m.log is history: what the last reference tag resolved to, and for each *)
(* tag that introduces an object, in stream order, the instance made for   *)
(* it (NULL while none is made).                                           *)
(***************************************************************************)
Machine ==
    [io |-> IoState(file, reader, consumed), stack |-> stack, heap |-> heap,
     symbols |-> symbols, objects |-> objects, ephemerals |-> ephemerals,
     corrupt |-> corrupt, status |-> status, root |-> root, log |-> log]

NoLog == [op |-> "none", ref |-> 0, res |-> NULL, size |-> 0, tags |-> <<>>,
          applied |-> <<>>]

Frame(k, obj, n, caller, ord) ==
    [k |-> k, obj |-> obj, n |-> n, i |-> 0, key |-> NULL, caller |-> caller,
     ord |-> ord]

Top(m) == m.stack[Len(m.stack)]
Pop(m) == [m EXCEPT !.stack = SubSeq(@, 1, Len(@) - 1)]
Push(m, f) == [m EXCEPT !.stack = Append(@, f)]

\* the tag just read introduces an object: its instance is ref (NULL: not made yet)
\* history: the key and the value handed to ruby_instance_set_var for an
\* object, and what it answered
NoteApplied(m, obj, key, value, ok) ==
    [m EXCEPT !.log.applied =
                  Append(@, [obj |-> obj, key |-> key, val |-> value, ok |-> ok])]

NoteTag(m, ref) == [m EXCEPT !.log.tags = Append(@, ref)]

FixnumOf(m) ==
    {[ok |-> x.ok, v |-> x.v, m |-> [m EXCEPT !.io = x.io]] :
         x \in ruby_unmarshal_next_fixnum(m.io)}

\* ruby_unmarshal_next_byteseq: [res, bytes, m] with res "ok", "fail" or "hang"
ruby_unmarshal_next_byteseq(m) ==
    UNION {IF ~x.ok
           THEN {[res |-> "fail", bytes |-> <<>>, m |-> x.m]}
           ELSE {[res |-> y.res, bytes |-> y.bytes, m |-> [x.m EXCEPT !.io = y.io]] :
                     y \in ruby_io_next_byteseq(x.m.io, x.v, <<>>)}
           : x \in FixnumOf(m)}

\* the loop of ruby_io_next_byteseq spins at end of file
Hang(m) == [m EXCEPT !.status = "hang", !.log.op = "truncated"]

\* Py_DECREF applied to a ruby_instance_t: the word decremented is the op
\* pointer.  The static instances are const objects: the store faults where
\* they are mapped read-only and goes through where they are not.
Py_DECREF(m, object) ==
    {[m EXCEPT !.corrupt = @ \cup {object}]}
    \cup (IF object \in Statics THEN {[m EXCEPT !.status = "crash"]} ELSE {})

RECURSIVE Return(_, _)

\* the return of ruby_unmarshal_object_instance_vars to its caller
IvarsDone(m, object, ok, caller) ==
    IF ok THEN Return(m, object)
    ELSE IF caller = "GenericObject" THEN Return(m, NULL)
    ELSE UNION {IF d.status = "crash" THEN {d} ELSE Return(d, NULL) :
                    d \in Py_DECREF(m, object)}

\* ruby_unmarshal_object_instance_vars up to its first nested call
ruby_unmarshal_object_instance_vars(m, object, caller) ==
    UNION {IF ~x.ok THEN IvarsDone(x.m, object, FALSE, caller)
           ELSE IF 0 < x.v
                THEN {Push(x.m, Frame("ivars", object, x.v, caller, 0))}
                ELSE IvarsDone(x.m, object, TRUE, caller)
           : x \in FixnumOf(m)}

\* ruby_unmarshal_object_instance after the class name has been decoded,
\* followed by what its three callers do with the object
ObjectInstanceNamed(m, f, name_instance) ==
    LET classname == ruby_instance_as_string(m, name_instance)
        m2     == __ruby_instance_new(m, [Instance(f.caller) EXCEPT !.str = CStr(classname.s)])
        object == Newest(m2)
        m3     == [m2 EXCEPT !.log.tags[f.ord] = object]
    IN IF ~classname.ok THEN Return(m, NULL)
       ELSE IF f.caller = "GenericObject"
       THEN ruby_unmarshal_object_instance_vars(m3, object, "GenericObject")
       ELSE IF f.caller = "UserMarshal"
       THEN {Push(m3, Frame("umdata", object, 0, "UserMarshal", 0))}
       ELSE UNION {CASE b.res = "fail" -> Return(b.m, NULL)
                     [] b.res = "hang" -> {Hang(b.m)}
                     [] OTHER -> Return([b.m EXCEPT !.heap[object].bytes = b.bytes], object)
                   : b \in ruby_unmarshal_next_byteseq(m3)}

\* a key or a value of the loop of ruby_unmarshal_object_instance_vars
IvarsNext(m, f, r) ==
    IF r = NULL THEN IvarsDone(m, f.obj, FALSE, f.caller)
    ELSE IF f.key = NULL THEN {Push(m, [f EXCEPT !.key = r])}
    ELSE LET set == ruby_instance_set_var(m, f.obj, f.key, r)
             sv  == [ok |-> set.ok, m |-> NoteApplied(set.m, f.obj, f.key, r, set.ok)]
         IN IF ~sv.ok THEN IvarsDone(sv.m, f.obj, FALSE, f.caller)
            ELSE IF f.i + 1 < f.n
            THEN {Push(sv.m, [f EXCEPT !.i = f.i + 1, !.key = NULL])}
            ELSE IvarsDone(sv.m, f.obj, TRUE, f.caller)

\* an item of the loop of ruby_Array_unmarshal
ArrayNext(m, f, item) ==
    IF item = NULL THEN Return(m, NULL)
    ELSE LET m2 == [m EXCEPT !.heap[f.obj].items = ruby_array_append(@, item)]
         IN IF f.i + 1 < f.n THEN {Push(m2, [f EXCEPT !.i = f.i + 1])}
            ELSE Return(m2, f.obj)

\* a key or a value of the loop of ruby_Hash_unmarshal
HashNext(m, f, r) ==
    IF r = NULL THEN Return(m, NULL)
    ELSE IF f.key = NULL THEN {Push(m, [f EXCEPT !.key = r])}
    ELSE LET m2 == [m EXCEPT !.heap[f.obj].keys = ruby_array_append(@, f.key),
                             !.heap[f.obj].vals = ruby_array_append(@, r)]
         IN IF f.i + 1 < f.n
            THEN {Push(m2, [f EXCEPT !.i = f.i + 1, !.key = NULL])}
            ELSE Return(m2, f.obj)

\* r is what a call of ruby_unmarshal_next_instance returns: the caller on
\* top of the stack goes on with it
Return(m, r) ==
    IF m.stack = <<>>
    THEN {[m EXCEPT !.root = r, !.status = IF r = NULL THEN "error" ELSE "ok"]}
    ELSE LET f == Top(m)
             p == Pop(m)
         IN CASE f.k = "array"   -> ArrayNext(p, f, r)
              [] f.k = "hash"    -> HashNext(p, f, r)
              [] f.k = "ivars"   -> IvarsNext(p, f, r)
              [] f.k = "objinst" -> IF r = NULL THEN Return(p, NULL)
                                    ELSE ObjectInstanceNamed(p, f, r)
              [] f.k = "iwrap"   -> IF r = NULL THEN Return(p, NULL)
                                    ELSE ruby_unmarshal_object_instance_vars(
                                             p, r, "ObjectWithInstanceVars")
              [] OTHER           -> IF r = NULL THEN Return(p, NULL)
                                    ELSE Return([p EXCEPT !.heap[f.obj].data = r], f.obj)


\* the unmarshal functions of the types and the processors of the other
\* tags, each run after its tag has been read
ruby_True_unmarshal(m) == Return(m, ruby_True)

ruby_False_unmarshal(m) == Return(m, ruby_False)

ruby_None_unmarshal(m) == Return(m, ruby_None)

ruby_Int_unmarshal(m) ==
    UNION {IF ~x.ok THEN Return(x.m, NULL)
           ELSE LET m2 == __ruby_instance_new(x.m, [Instance("Int") EXCEPT !.num = x.v])
                IN Return(m2, Newest(m2))
           : x \in FixnumOf(m)}

\* ruby_unmarshal_next_string hands the bytes on as a C string
ruby_Symbol_unmarshal(m) ==
    UNION {CASE b.res = "fail" -> Return(b.m, NULL)
             [] b.res = "hang" -> {Hang(b.m)}
             [] OTHER ->
                  LET m2 == __ruby_instance_new(
                                b.m, [Instance("Symbol") EXCEPT !.str = CStr(b.bytes)])
                  IN Return(m2, Newest(m2))
           : b \in ruby_unmarshal_next_byteseq(m)}

ruby_String_unmarshal(m) ==
    UNION {CASE b.res = "fail" -> Return(b.m, NULL)
             [] b.res = "hang" -> {Hang(b.m)}
             [] OTHER ->
                  LET m2 == __ruby_instance_new(
                                b.m, [Instance("String") EXCEPT !.str = CStr(b.bytes)])
                  IN Return(NoteTag(m2, Newest(m2)), Newest(m2))
           : b \in ruby_unmarshal_next_byteseq(m)}

ruby_SymbolReference_unmarshal(m) ==
    UNION {IF ~x.ok THEN Return(x.m, NULL)
           ELSE LET symbol == ruby_array_get(x.m.symbols, x.v)
                IN Return([x.m EXCEPT !.log.op = "symref", !.log.ref = x.v,
                                      !.log.res = symbol,
                                      !.log.size = Len(m.symbols)], symbol)
           : x \in FixnumOf(m)}

ruby_ObjectReference_unmarshal(m) ==
    UNION {IF ~x.ok THEN Return(x.m, NULL)
           ELSE LET object == ruby_array_get(x.m.objects, x.v)
                IN Return([x.m EXCEPT !.log.op = "objref", !.log.ref = x.v,
                                      !.log.res = object,
                                      !.log.size = Len(m.objects)], object)
           : x \in FixnumOf(m)}

ruby_Array_unmarshal(m) ==
    UNION {IF ~x.ok THEN Return(x.m, NULL)
           ELSE LET m2    == __ruby_instance_new(x.m, Instance("Array"))
                    array == Newest(m2)
                    m3    == NoteTag(m2, array)
                IN IF 0 < x.v THEN {Push(m3, Frame("array", array, x.v, "Array", 0))}
                   ELSE Return(m3, array)
           : x \in FixnumOf(m)}

ruby_Hash_unmarshal(m) ==
    UNION {IF ~x.ok THEN Return(x.m, NULL)
           ELSE LET m2   == __ruby_instance_new(x.m, Instance("Hash"))
                    hash == Newest(m2)
                    m3   == NoteTag(m2, hash)
                IN IF 0 < x.v THEN {Push(m3, Frame("hash", hash, x.v, "Hash", 0))}
                   ELSE Return(m3, hash)
           : x \in FixnumOf(m)}

\* ruby_unmarshal_object_instance up to its nested call, for the constructor
\* of the type named
ruby_unmarshal_object_instance(m, type) ==
    {Push(NoteTag(m, NULL), Frame("objinst", NULL, 0, type, Len(m.log.tags) + 1))}

ruby_GenericObject_unmarshal(m) == ruby_unmarshal_object_instance(m, "GenericObject")

ruby_UserDefined_unmarshal(m) == ruby_unmarshal_object_instance(m, "UserDefined")

ruby_UserMarshal_unmarshal(m) == ruby_unmarshal_object_instance(m, "UserMarshal")

ruby_ObjectWithInstanceVars_unmarshal(m) ==
    {Push(m, Frame("iwrap", NULL, 0, "ObjectWithInstanceVars", 0))}

KnownTags ==
    {TagTrue, TagFalse, TagNone, TagInt, TagSymbol, TagSymbolReference,
     TagObjectReference, TagString, TagArray, TagHash, TagGenericObject,
     TagUserDefined, TagUserMarshal, TagObjectWithInstanceVars}

\* the machine m becomes the state
Commit(m) ==
    /\ file' = m.io.f
    /\ reader' = [data |-> m.io.data, pos |-> m.io.pos]
    /\ consumed' = m.io.seen
    /\ stack' = m.stack
    /\ heap' = m.heap
    /\ symbols' = m.symbols
    /\ objects' = m.objects
    /\ ephemerals' = m.ephemerals
    /\ corrupt' = m.corrupt
    /\ status' = m.status
    /\ root' = m.root
    /\ log' = m.log
    /\ UNCHANGED <<round, phase, host, host1, doc1, out, mok, e_sym_id, fx, encoding, placed, gemvars>>

\* __ruby_unmarshal_next_instance reads the tag c: the machines in which
\* the handler of c starts
TagRead(c) ==
    IF phase = "decode" /\ status = "run"
    THEN {[Machine EXCEPT !.io = r.io] : r \in {x \in ruby_io_nextc(Machine.io) : x.c = c}}
    ELSE {}

\* marshal48_unmarshal_io up to its call of ruby_unmarshal_next_instance
marshal48_check_signature ==
    /\ phase = "decode"
    /\ status = "sig"
    /\ \E a \in ruby_io_nextc(Machine.io) :
           IF a.c # 4
           THEN Commit([Machine EXCEPT !.io = a.io, !.status = "error"])
           ELSE \E b \in ruby_io_nextc(a.io) :
                    Commit([Machine EXCEPT !.io = b.io,
                               !.status = IF b.c = 8 THEN "run" ELSE "error"])

DecodeTrue ==
    \E m \in TagRead(TagTrue) : \E m2 \in ruby_True_unmarshal(m) : Commit(m2)
DecodeFalse ==
    \E m \in TagRead(TagFalse) : \E m2 \in ruby_False_unmarshal(m) : Commit(m2)
DecodeNone ==
    \E m \in TagRead(TagNone) : \E m2 \in ruby_None_unmarshal(m) : Commit(m2)
DecodeInt ==
    \E m \in TagRead(TagInt) : \E m2 \in ruby_Int_unmarshal(m) : Commit(m2)
DecodeSymbol ==
    \E m \in TagRead(TagSymbol) : \E m2 \in ruby_Symbol_unmarshal(m) : Commit(m2)
DecodeString ==
    \E m \in TagRead(TagString) : \E m2 \in ruby_String_unmarshal(m) : Commit(m2)
DecodeSymbolReference ==
    \E m \in TagRead(TagSymbolReference) : \E m2 \in ruby_SymbolReference_unmarshal(m) : Commit(m2)
DecodeObjectReference ==
    \E m \in TagRead(TagObjectReference) : \E m2 \in ruby_ObjectReference_unmarshal(m) : Commit(m2)
DecodeArray ==
    \E m \in TagRead(TagArray) : \E m2 \in ruby_Array_unmarshal(m) : Commit(m2)
DecodeHash ==
    \E m \in TagRead(TagHash) : \E m2 \in ruby_Hash_unmarshal(m) : Commit(m2)
DecodeGenericObject ==
    \E m \in TagRead(TagGenericObject) : \E m2 \in ruby_GenericObject_unmarshal(m) : Commit(m2)
DecodeUserDefined ==
    \E m \in TagRead(TagUserDefined) : \E m2 \in ruby_UserDefined_unmarshal(m) : Commit(m2)
DecodeUserMarshal ==
    \E m \in TagRead(TagUserMarshal) : \E m2 \in ruby_UserMarshal_unmarshal(m) : Commit(m2)
DecodeObjectWithInstanceVars ==
    \E m \in TagRead(TagObjectWithInstanceVars) : \E m2 \in ruby_ObjectWithInstanceVars_unmarshal(m) : Commit(m2)

\* __ruby_unmarshal_next_instance at end of input or on a byte that is in
\* neither table
DecodeUnknown ==
    /\ phase = "decode"
    /\ status = "run"
    /\ \E r \in ruby_io_nextc(Machine.io) :
           /\ r.c \notin KnownTags
           /\ \E m2 \in Return([Machine EXCEPT !.io = r.io], NULL) : Commit(m2)


(***************************************************************************)
(* Projection to host values.  A host value is a record; t "fail" is a     *)
(* NULL result and t "loop" a recursion that never returns.  exc tells     *)
(* that a host exception was left pending.  The factory of the host        *)
(* instantiates the classes of FactoryClasses and returns None for every   *)
(* other name; the objects it makes accept load, marshal_load and any      *)
(* attribute.                                                              *)
(***************************************************************************)
HV(t) == [t |-> t, n |-> 0, s |-> <<>>, items |-> <<>>, keys |-> <<>>,
          arg |-> <<>>, kind |-> "", exc |-> FALSE]

FactoryClasses == {<<69>>}

\* PyUnicode_FromString: the bytes have to be UTF-8; of the bytes of the
\* model those below 0x80 are, and 0xfa never is
PyUnicode_FromString(b) ==
    IF \A i \in 1..Len(b) : b[i] < 128 THEN [HV("str") EXCEPT !.s = b] ELSE HV("fail")

Unhashable(v) == v.t \in {"list", "dict"}

\* the first position of a failed conversion in a sequence of host values
FirstBad(vs) ==
    IF \E i \in 1..Len(vs) : vs[i].t \in {"fail", "loop"}
    THEN CHOOSE i \in 1..Len(vs) :
             /\ vs[i].t \in {"fail", "loop"}
             /\ \A j \in 1..(i - 1) : vs[j].t \notin {"fail", "loop"}
    ELSE 0

\* PyDict_SetItem and PyObject_SetAttr: a key already there gets the new value
SetPair(target, k, v) ==
    LET at == {j \in 1..Len(target.keys) : target.keys[j] = k}
        t2 == IF at = {}
              THEN [target EXCEPT !.keys = Append(@, k), !.items = Append(@, v)]
              ELSE [target EXCEPT !.items[CHOOSE j \in at : TRUE] = v]
    IN [t2 EXCEPT !.exc = @ \/ k.exc \/ v.exc]

RECURSIVE ruby_instance_to_python(_, _, _)

\* the key of a pair as __ruby_dict_to_python converts it
DictKeyToPython(h, k, path) ==
    IF k \notin Statics /\ h[k].type = "Symbol" /\ h[k].str # <<>> /\ h[k].str[1] = 64
    THEN PyUnicode_FromString(Tail(h[k].str))
    ELSE ruby_instance_to_python(h, k, path)

\* the loop of __ruby_dict_to_python from pair i on.  Key and value are both
\* converted before either result is looked at.  With attrs the pairs are
\* set as attributes, which fails for a name that is no string; without,
\* they are set as items, where an unhashable key leaves an exception
\* pending and the loop goes on.
RECURSIVE __ruby_dict_to_python(_, _, _, _, _, _)
__ruby_dict_to_python(h, inst, target, path, attrs, i) ==
    IF i > Len(inst.keys) THEN target
    ELSE LET k == DictKeyToPython(h, inst.keys[i], path)
             v == ruby_instance_to_python(h, inst.vals[i], path)
         IN IF k.t = "loop" \/ v.t = "loop" THEN HV("loop")
            ELSE IF k.t = "fail" \/ v.t = "fail" THEN HV("fail")
            ELSE IF attrs /\ k.t # "str" THEN HV("fail")
            ELSE IF ~attrs /\ Unhashable(k)
            THEN __ruby_dict_to_python(
                     h, inst, [target EXCEPT !.exc = TRUE], path, attrs, i + 1)
            ELSE __ruby_dict_to_python(
                     h, inst, SetPair(target, k, v), path, attrs, i + 1)

\* marshal48_instantiate_ruby_type: None from the factory is a failure
marshal48_instantiate_ruby_type(name, kind) ==
    IF name \in FactoryClasses
    THEN [HV("obj") EXCEPT !.s = name, !.kind = kind]
    ELSE HV("fail")

ruby_instance_to_python(h, r, path) ==
    IF r = ruby_True THEN HV("true")
    ELSE IF r = ruby_False THEN HV("false")
    ELSE IF r = ruby_None THEN HV("none")
    ELSE IF r \in path THEN HV("loop")
    ELSE LET inst == h[r]
             p2   == path \cup {r}
         IN CASE inst.type = "Int" -> [HV("int") EXCEPT !.n = inst.num]
              [] inst.type \in {"Symbol", "String"} -> PyUnicode_FromString(inst.str)
              [] inst.type = "Array" ->
                   LET vs  == [i \in 1..Len(inst.items) |->
                                  ruby_instance_to_python(h, inst.items[i], p2)]
                       bad == FirstBad(vs)
                   IN IF bad # 0 THEN HV(vs[bad].t)
                      ELSE [HV("list") EXCEPT !.items = vs,
                               !.exc = \E i \in 1..Len(vs) : vs[i].exc]
              [] inst.type = "Hash" ->
                   __ruby_dict_to_python(h, inst, HV("dict"), p2, FALSE, 1)
              [] inst.type = "GenericObject" ->
                   LET result == marshal48_instantiate_ruby_type(inst.str, inst.type)
                   IN IF result.t = "fail" THEN result
                      ELSE __ruby_dict_to_python(h, inst, result, p2, TRUE, 1)
              [] inst.type = "UserDefined" ->
                   LET result == marshal48_instantiate_ruby_type(inst.str, inst.type)
                       data   == IF inst.bytes = <<>> THEN HV("none")
                                 ELSE [HV("bytes") EXCEPT !.s = inst.bytes]
                   IN IF result.t = "fail" THEN result
                      ELSE __ruby_dict_to_python(
                               h, inst, [result EXCEPT !.arg = <<data>>], p2, TRUE, 1)
              [] OTHER ->
                   LET result == marshal48_instantiate_ruby_type(inst.str, inst.type)
                       data   == IF inst.data = NULL THEN HV("none")
                                 ELSE ruby_instance_to_python(h, inst.data, p2)
                   IN IF result.t = "fail" THEN result
                      ELSE IF data.t \in {"fail", "loop"} THEN data
                      ELSE __ruby_dict_to_python(
                               h, inst, [result EXCEPT !.arg = <<data>>,
                                                       !.exc = data.exc], p2, TRUE, 1)


(***************************************************************************)
(* The host objects of a projection.  c holds the native member of every   *)
(* instance (NULL while nothing is cached), the number of host objects     *)
(* made so far, and for every position filled the instance converted there *)
(* and the host object put there.  The statics stand for the host's own    *)
(* singletons.  Only conversions that succeed are followed.                *)
(***************************************************************************)
NoNatives(h) == [native |-> [r \in 1..Len(h) |-> NULL], made |-> 0, at |-> <<>>]

\* a host object that did not exist before
NewObject(c) == [obj |-> c.made + 1, c |-> [c EXCEPT !.made = @ + 1]]

Placed(x, r) == [obj |-> x.obj, c |-> [x.c EXCEPT !.at = Append(@, [inst |-> r, obj |-> x.obj])]]

RECURSIVE op_to_python(_, _, _)

\* ruby_instance_to_python: the cached object, or the converted one, cached
instance_native(h, r, c) ==
    IF r \in Statics THEN [obj |-> r, c |-> c]
    ELSE IF c.native[r] # NULL THEN [obj |-> c.native[r], c |-> c]
    ELSE LET n == op_to_python(h, r, c)
         IN [obj |-> n.obj, c |-> [n.c EXCEPT !.native[r] = n.obj]]

\* the items of ruby_Array_to_python from item i on
RECURSIVE ItemsNative(_, _, _, _)
ItemsNative(h, items, c, i) ==
    IF i > Len(items) THEN c
    ELSE ItemsNative(h, items, Placed(instance_native(h, items[i], c), items[i]).c, i + 1)

\* the pairs of __ruby_dict_to_python from pair i on: a symbol key that
\* starts with @ is made into a new string, any other key is converted
RECURSIVE PairsNative(_, _, _, _)
PairsNative(h, inst, c, i) ==
    IF i > Len(inst.keys) THEN c
    ELSE LET k   == inst.keys[i]
             key == IF k \notin Statics /\ h[k].type = "Symbol"
                       /\ h[k].str # <<>> /\ h[k].str[1] = 64
                    THEN NewObject(c)
                    ELSE instance_native(h, k, c)
             val == instance_native(h, inst.vals[i], Placed(key, k).c)
         IN PairsNative(h, inst, Placed(val, inst.vals[i]).c, i + 1)

\* the to_python member of the type of instance r
op_to_python(h, r, c) ==
    LET inst   == h[r]
        result == NewObject(c)
    IN CASE inst.type \in {"Int", "Symbol", "String"} -> result
         [] inst.type = "Array" ->
              [obj |-> result.obj, c |-> ItemsNative(h, inst.items, result.c, 1)]
         [] inst.type = "UserMarshal" /\ inst.data # NULL ->
              LET data == Placed(instance_native(h, inst.data, result.c), inst.data)
              IN [obj |-> result.obj, c |-> PairsNative(h, inst, data.c, 1)]
         [] OTHER ->
              [obj |-> result.obj, c |-> PairsNative(h, inst, result.c, 1)]

\* the positions of the projection of instance r and what was put there
Positions(h, r) == Placed(instance_native(h, r, NoNatives(h)), r).c.at

(***************************************************************************)
(* Lifting host values into instances of a fresh context.  l holds the     *)
(* heap and the tables of that context and the string index of the         *)
(* converter; results are [ref, l] with ref NULL on failure.               *)
(***************************************************************************)
EmptyContext ==
    [heap |-> <<>>, symbols |-> <<>>, objects |-> <<>>, ephemerals |-> <<>>,
     strings |-> <<>>]

\* the type ruby_instance_from_python picks for a host value that is none
\* of True, False and None
HostType(hv) ==
    CASE hv.t = "list" -> "Array"
      [] hv.t = "int" -> "Int"
      [] hv.t = "str" -> "String"
      [] hv.t = "dict" -> "Hash"
      [] hv.t = "obj" /\ hv.kind = "UserDefined" -> "UserDefined"
      [] hv.t = "obj" /\ hv.kind = "UserMarshal" -> "UserMarshal"
      [] OTHER -> "GenericObject"

\* the types whose ruby_type_t has a from_python member
HasFromPython(type) == type \in {"Array", "Int", "String", "Hash", "Symbol", "UserMarshal"}

\* ruby_String_get_cached: the indexed string with the same content, if any
ruby_String_get_cached(l, hv) ==
    LET hit == {i \in 1..Len(l.strings) : l.heap[l.strings[i]].str = hv.s}
    IN IF hit = {} THEN NULL ELSE l.strings[CHOOSE i \in hit : TRUE]

RECURSIVE ruby_instance_from_python(_, _)

\* the loop of ruby_Array_from_python from item i on: [ok, l]
RECURSIVE ruby_Array_from_python(_, _, _, _)
ruby_Array_from_python(l, self, items, i) ==
    IF i > Len(items) THEN [ok |-> TRUE, l |-> l]
    ELSE LET item == ruby_instance_from_python(l, items[i])
         IN IF item.ref = NULL THEN [ok |-> FALSE, l |-> item.l]
            ELSE ruby_Array_from_python(
                     [item.l EXCEPT !.heap[self].items = ruby_array_append(@, item.ref)],
                     self, items, i + 1)

ruby_instance_from_python(l, hv) ==
    IF hv.t = "true" THEN [ref |-> ruby_True, l |-> l]
    ELSE IF hv.t = "false" THEN [ref |-> ruby_False, l |-> l]
    ELSE IF hv.t = "none" THEN [ref |-> ruby_None, l |-> l]
    ELSE LET type   == HostType(hv)
             cached == IF type = "String" THEN ruby_String_get_cached(l, hv) ELSE NULL
             l2     == __ruby_instance_new(l, Instance(type))
             self   == Newest(l2)
         IN IF cached # NULL THEN [ref |-> cached, l |-> l]
            ELSE IF ~HasFromPython(type) THEN [ref |-> NULL, l |-> l]
            ELSE CASE type = "Array" ->
                        LET r == ruby_Array_from_python(l2, self, hv.items, 1)
                        IN [ref |-> IF r.ok THEN self ELSE NULL, l |-> r.l]
                   [] type = "String" ->
                        [ref |-> self,
                         l |-> [l2 EXCEPT !.heap[self].str = hv.s,
                                          !.strings = Append(@, self)]]
                   [] type = "UserMarshal" ->
                        LET data == ruby_instance_from_python(l2, hv.arg[1])
                        IN IF data.ref = NULL THEN [ref |-> NULL, l |-> data.l]
                           ELSE [ref |-> self,
                                 l |-> [data.l EXCEPT !.heap[self].data = data.ref]]
                   [] OTHER -> [ref |-> NULL, l |-> l2]

(***************************************************************************)
(* The encoder.  e holds the heap (for the marshal ids), the bytes put to  *)
(* the writer, the two id counters of the ruby_marshal_t and the static    *)
(* e_sym_id of ruby_marshal_string; results are [ok, e].  e.ev is history: *)
(* for every symbol or object the encoder comes to, in order, whether it   *)
(* was written in full ("sym", "obj") or as a reference ("symref",         *)
(* "objref"), which instance or symbol name it was, and the id used.       *)
(***************************************************************************)
Emitted(e, k, what, id) ==
    [e EXCEPT !.ev = Append(@, [k |-> k, what |-> what, id |-> id, at |-> Len(e.out)])]

Put(e, b) == [e EXCEPT !.out = @ \o b]

PutFixnum(e, v) ==
    LET f == ruby_marshal_fixnum(v) IN [ok |-> f.ok, e |-> Put(e, f.bytes)]

ruby_marshal_true(e) == [ok |-> TRUE, e |-> Put(e, <<TagTrue>>)]

ruby_marshal_symbol_reference(e, id) == PutFixnum(Put(e, <<TagSymbolReference>>), id)

ruby_marshal_object_reference(e, id) == PutFixnum(Put(e, <<TagObjectReference>>), id)

\* __ruby_marshal_maybe_object_reference: [seen, e]; a reference is written
\* for an id above 0, any other instance gets the next id
maybe_object_reference(e, ref) ==
    IF e.heap[ref].marshal_id > 0
    THEN LET r == ruby_marshal_object_reference(
                      Emitted(e, "objref", ref, e.heap[ref].marshal_id),
                      e.heap[ref].marshal_id)
         IN [seen |-> r.ok, e |-> r.e]
    ELSE [seen |-> FALSE,
          e |-> [Emitted(e, "obj", ref, e.next_obj_id)
                     EXCEPT !.heap[ref].marshal_id = e.next_obj_id,
                            !.next_obj_id = @ + 1]]

\* ruby_marshal_bytes: the length, then the bytes
ruby_marshal_bytes(e, b) ==
    LET n == PutFixnum(e, Len(b))
    IN IF n.ok THEN [ok |-> TRUE, e |-> Put(n.e, b)] ELSE n

\* ruby_marshal_symbol for the symbol E, whose id is the static e_sym_id
ruby_marshal_symbol(e, name) ==
    IF e.e_sym_id >= 0
    THEN ruby_marshal_symbol_reference(Emitted(e, "symref", name, e.e_sym_id), e.e_sym_id)
    ELSE ruby_marshal_bytes(
             Put([Emitted(e, "sym", name, e.next_sym_id)
                      EXCEPT !.e_sym_id = e.next_sym_id, !.next_sym_id = @ + 1],
                 <<TagSymbol>>), name)

ruby_marshal_string(e, ref) ==
    LET seen == maybe_object_reference(e, ref)
        str  == e.heap[ref].str
        body == ruby_marshal_bytes(Put(seen.e, <<TagObjectWithInstanceVars, TagString>>), str)
        one  == PutFixnum(body.e, 1)
        sym  == ruby_marshal_symbol(one.e, <<69>>)
    IN IF seen.seen THEN [ok |-> TRUE, e |-> seen.e]
       ELSE IF str = <<>> THEN [ok |-> TRUE, e |-> Put(seen.e, <<TagString, 0>>)]
       ELSE IF ~body.ok THEN body
       ELSE IF ~one.ok THEN one
       ELSE IF ~sym.ok THEN sym
       ELSE ruby_marshal_true(sym.e)

RECURSIVE ruby_marshal_next_instance(_, _)

\* the loop of ruby_Array_marshal from item i on
RECURSIVE ArrayItemsMarshal(_, _, _)
ArrayItemsMarshal(e, items, i) ==
    IF i > Len(items) THEN [ok |-> TRUE, e |-> e]
    ELSE LET r == ruby_marshal_next_instance(e, items[i])
         IN IF r.ok THEN ArrayItemsMarshal(r.e, items, i + 1) ELSE r

\* ruby_marshal_array_begin answers true for a reference written as well as
\* for a header written: the items follow in both cases
ruby_Array_marshal(e, ref) ==
    LET seen  == maybe_object_reference(e, ref)
        items == e.heap[ref].items
        begin == IF seen.seen THEN [ok |-> TRUE, e |-> seen.e]
                 ELSE PutFixnum(Put(seen.e, <<TagArray>>), Len(items))
    IN IF begin.ok THEN ArrayItemsMarshal(begin.e, items, 1) ELSE begin

\* only the String and the Array type have a marshal member
ruby_marshal_next_instance(e, instance) ==
    LET r == IF instance \in Statics THEN [ok |-> FALSE, e |-> e]
             ELSE CASE e.heap[instance].type = "String" -> ruby_marshal_string(e, instance)
                    [] e.heap[instance].type = "Array" -> ruby_Array_marshal(e, instance)
                    [] OTHER -> [ok |-> FALSE, e |-> e]
    IN [ok |-> r.ok, e |-> Emitted(r.e, "done", instance, -1)]

\* marshal48_marshal_io: the signature, the value, and the flush that
\* happens whether or not the value could be written
marshal48_marshal_io(h, instance, esym) ==
    ruby_marshal_next_instance(
        [heap |-> h, out |-> <<4, 8>>, next_obj_id |-> 0, next_sym_id |-> 0,
         e_sym_id |-> esym, ev |-> <<>>], instance)


(***************************************************************************)
(* The calls of the host: marshal48.unmarshal returning, marshal48.marshal *)
(* on the value it returned, and the second decode of the try script.      *)
(***************************************************************************)
\* marshal48_Unmarshal after marshal48_unmarshal_io has returned: the
\* conversion of the result and ruby_context_free.  A conversion that never
\* returns exhausts the C stack.  ruby_context_free calls op->del of every
\* instance of the three tables, which for an instance whose op was
\* decremented is a call through a pointer read from the wrong place.
marshal48_Unmarshal ==
    /\ phase = "decode"
    /\ status \in {"ok", "error"}
    /\ LET hv   == IF status = "ok" THEN ruby_instance_to_python(heap, root, {})
                   ELSE HV("fail")
           wild == corrupt \ Statics # {}
           outcomes ==
               (IF hv.t = "loop" THEN {"crash"}
                ELSE IF hv.t = "fail" \/ hv.exc THEN {"raised"}
                ELSE {"returned"})
               \cup (IF wild THEN {"crash"} ELSE {})
       IN \E outcome \in outcomes :
              /\ status' = outcome
              /\ host' = IF outcome = "returned" THEN hv ELSE HV("fail")
              /\ placed' = IF outcome = "returned" THEN Positions(heap, root) ELSE <<>>
    /\ phase' = "host"
    /\ heap' = <<>>
    /\ symbols' = <<>>
    /\ objects' = <<>>
    /\ ephemerals' = <<>>
    /\ corrupt' = corrupt \cap Statics
    /\ root' = NULL
    /\ UNCHANGED <<file, reader, consumed, stack, log, round, host1, doc1, out,
                   mok, e_sym_id, fx, encoding, gemvars>>

\* marshal48.marshal(host, f): a fresh context, the host value lifted into
\* it, marshal48_marshal_io on a file opened for writing, the context freed.
\* Nothing is written when the value cannot be lifted.
marshal48_Marshal ==
    /\ phase = "host"
    /\ status = "returned"
    /\ round = 1
    /\ LET lifted == ruby_instance_from_python(EmptyContext, host)
           r      == marshal48_marshal_io(lifted.l.heap, lifted.ref, e_sym_id)
       IN IF lifted.ref = NULL
          THEN /\ mok' = FALSE
               /\ out' = <<>>
               /\ e_sym_id' = e_sym_id
          ELSE /\ mok' = r.ok
               /\ out' = r.e.out
               /\ e_sym_id' = r.e.e_sym_id
    /\ phase' = "written"
    /\ UNCHANGED <<file, reader, consumed, stack, heap, symbols, objects,
                   ephemerals, corrupt, status, root, log, round, host, host1,
                   doc1, fx, encoding, placed, gemvars>>

\* the try script opens the file just written and decodes it
Reopen ==
    /\ phase = "written"
    /\ round' = 2
    /\ phase' = "decode"
    /\ status' = "sig"
    /\ file' = [rest |-> out, budget |-> 0]
    /\ reader' = [data |-> <<>>, pos |-> 0]
    /\ consumed' = <<>>
    /\ doc1' = consumed
    /\ host1' = host
    /\ host' = HV("none")
    /\ log' = NoLog
    /\ UNCHANGED <<stack, heap, symbols, objects, ephemerals, corrupt, root,
                   out, mok, e_sym_id, fx, encoding, placed, gemvars>>

\* the beginnings of the documents decoded; the environment supplies the
\* bytes that follow
Heads ==
    {<<>>,
     <<4, 8>>,
     <<4, 8, TagArray, 7>>,
     <<4, 8, TagArray, 7, TagString, 0>>,
     <<4, 8, TagArray, 7, TagSymbol, 0>>,
     <<4, 8, TagArray, 6, TagArray, 6>>,
     <<4, 8, TagObjectWithInstanceVars, TagString, 6, 69, 6, TagSymbol, 6, 69>>,
     <<4, 8, TagObjectWithInstanceVars, TagNone, 6>>,
     <<4, 8, TagObjectWithInstanceVars, TagArray, 0, 6>>,
     <<4, 8, TagGenericObject, TagString, 0>>,
     <<4, 8, TagGenericObject, TagSymbol, 6, 69>>,
     <<4, 8, TagGenericObject, TagSymbol, 6, 69, 7,
       TagSymbolReference, 0, TagTrue, TagSymbolReference, 0>>,
     <<4, 8, TagHash, 6>>,
     <<4, 8, TagHash, 6, TagSymbol, 6, 64>>,
     <<4, 8, TagUserDefined, TagSymbol, 6, 69>>,
     <<4, 8, TagUserMarshal, TagSymbol, 6, 69>>,
     <<4, 8, TagArray, 7,
       TagObjectWithInstanceVars, TagString, 6, 69, 6, TagSymbol, 6, 69, TagTrue,
       TagObjectWithInstanceVars, TagString, 6, 69, 6, TagSymbolReference, 0, TagTrue>>}

\* no encode call has been made
NoEnc == [earlier |-> FALSE, heap |-> <<>>, root |-> NULL, ok |-> FALSE, ev |-> <<>>,
          esym |-> -1]

NoFix == [mode |-> "none", in |-> <<>>, ok |-> FALSE, v |-> 0, used |-> 0, enc |-> <<>>]

\* a NULL bundler_context_t pointer: Gemfile(path) built without a context
NoContext == [null |-> TRUE, platforms |-> <<>>, with_groups |-> <<>>,
              without_groups |-> <<>>]

\* no gemfile_parser_state exists
NoParser == [status |-> "none", execute |-> FALSE, frames |-> <<>>]

\* no gem statement has been evaluated
NoGem == [declared |-> FALSE, ignore |-> FALSE, execute |-> FALSE,
          platform |-> <<>>, group |-> <<>>]

\* bundler_gemfile_new: no source set
NoGemfile == [source |-> ""]

\* no file is being evaluated
NoEvals == [status |-> "none", open |-> <<>>]

\* ruby_trace_new has not been called
NoTrace == [status |-> "none", build |-> "", cur |-> NULL, states |-> <<>>,
            calls |-> <<>>, lines |-> <<>>]

\* no ruby_io has been set up on a short-reading source
NoRead == [status |-> "none"]

\* ruby_string_instancedict_new has not been called
NoIndex == [status |-> "none"]

\* the variables of the specifications further down, at rest
ExtIdle ==
    /\ files = <<>>
    /\ evals = NoEvals
    /\ tracing = NoTrace
    /\ rd = NoRead
    /\ dict = NoIndex

\* marshal48.unmarshal(f) has made its context and its reader
Init ==
    /\ file \in {[rest |-> h, budget |-> MaxInput] : h \in Heads}
    /\ reader = [data |-> <<>>, pos |-> 0]
    /\ consumed = <<>>
    /\ stack = <<>>
    /\ heap = <<>>
    /\ symbols = <<>>
    /\ objects = <<>>
    /\ ephemerals = <<>>
    /\ corrupt = {}
    /\ status = "sig"
    /\ root = NULL
    /\ log = NoLog
    /\ round = 1
    /\ phase = "decode"
    /\ host = HV("none")
    /\ host1 = HV("none")
    /\ doc1 = <<>>
    /\ out = <<>>
    /\ mok = FALSE
    /\ e_sym_id = -1
    /\ fx = NoFix
    /\ encoding = NoEnc
    /\ placed = <<>>
    /\ bundler_ctx = NoContext
    /\ ps = NoParser
    /\ gem = NoGem
    /\ gemf = NoGemfile
    /\ ExtIdle

Next ==
    \/ marshal48_check_signature
    \/ DecodeTrue
    \/ DecodeFalse
    \/ DecodeNone
    \/ DecodeInt
    \/ DecodeSymbol
    \/ DecodeString
    \/ DecodeSymbolReference
    \/ DecodeObjectReference
    \/ DecodeArray
    \/ DecodeHash
    \/ DecodeGenericObject
    \/ DecodeUserDefined
    \/ DecodeUserMarshal
    \/ DecodeObjectWithInstanceVars
    \/ DecodeUnknown
    \/ marshal48_Unmarshal
    \/ marshal48_Marshal
    \/ Reopen

Spec == Init /\ [][Next]_vars


(***************************************************************************)
(* SpecFixnum: the fixnum codec applied to bounded inputs.  An experiment  *)
(* either decodes a byte string (every first byte, followed by FixFollow   *)
(* bytes drawn from FollowBytes) or encodes a value and decodes the bytes  *)
(* the encoder wrote.                                                      *)
(***************************************************************************)
FollowBytes == {0, 1, 255}

FixValues == {-2147483647, -65536, -256, -129, -128, -124, -123, -1,
              0, 1, 122, 123, 255, 256, 65535, 65536, 16777215, 16777216,
              2147483647}

\* a reader over a source that holds exactly the bytes b
IoOver(b) == [f |-> [rest |-> b, budget |-> 0], data |-> <<>>, pos |-> 0, seen |-> <<>>]

FixRecord(mode, in, ok, v, used, enc) ==
    [mode |-> mode, in |-> in, ok |-> ok, v |-> v, used |-> used, enc |-> enc]

\* the fixnum decoder run on the bytes of the experiment
FixnumDecode ==
    /\ fx.mode = "bytes"
    /\ \E x \in ruby_unmarshal_next_fixnum(IoOver(fx.in)) :
           fx' = FixRecord("decoded", fx.in, x.ok, x.v, Len(x.io.seen), <<>>)
    /\ UNCHANGED decvars

\* the fixnum encoder run on the value of the experiment
FixnumEncode ==
    /\ fx.mode = "value"
    /\ LET e == ruby_marshal_fixnum(fx.v)
       IN fx' = FixRecord("encoded", <<>>, e.ok, fx.v, 0, e.bytes)
    /\ UNCHANGED decvars

\* the fixnum decoder run on what the encoder wrote
FixnumReread ==
    /\ fx.mode = "encoded"
    /\ fx.ok
    /\ \E x \in ruby_unmarshal_next_fixnum(IoOver(fx.enc)) :
           fx' = FixRecord("reread", <<fx.v>>, x.ok, x.v, Len(x.io.seen), fx.enc)
    /\ UNCHANGED decvars

\* the state of a process that has not called the codec yet
Idle ==
    /\ file = [rest |-> <<>>, budget |-> 0]
    /\ reader = [data |-> <<>>, pos |-> 0]
    /\ consumed = <<>>
    /\ stack = <<>>
    /\ heap = <<>>
    /\ symbols = <<>>
    /\ objects = <<>>
    /\ ephemerals = <<>>
    /\ corrupt = {}
    /\ status = "idle"
    /\ root = NULL
    /\ log = NoLog
    /\ round = 0
    /\ phase = "fixnum"
    /\ host = HV("none")
    /\ host1 = HV("none")
    /\ doc1 = <<>>
    /\ out = <<>>
    /\ mok = FALSE
    /\ e_sym_id = -1
    /\ encoding = NoEnc
    /\ placed = <<>>
    /\ bundler_ctx = NoContext
    /\ ps = NoParser
    /\ gem = NoGem
    /\ gemf = NoGemfile
    /\ ExtIdle

InitFixnum ==
    /\ Idle
    /\ fx \in {FixRecord("bytes", <<c>> \o t, FALSE, 0, 0, <<>>) :
                   c \in 0..255, t \in [1..FixFollow -> FollowBytes]}
              \cup {FixRecord("value", <<>>, FALSE, v, 0, <<>>) : v \in FixValues}

NextFixnum == FixnumDecode \/ FixnumEncode \/ FixnumReread

SpecFixnum == InitFixnum /\ [][NextFixnum]_vars

\* four bytes read as a little-endian two's complement 32-bit word
Signed32LE(b) ==
    b[1] + 256 * b[2] + 65536 * b[3]
         + 16777216 * (IF b[4] >= 128 THEN b[4] - 256 ELSE b[4])

\* C7 (as claimed): a fixnum whose first byte is 0x04 consumes exactly the
\* four following bytes and yields them read as a little-endian signed
\* 32-bit integer.
C7_FourByteForm ==
    (fx.mode = "decoded" /\ fx.in[1] = 4) =>
        /\ fx.ok
        /\ fx.used = 5
        /\ fx.v = Signed32LE(SubSeq(fx.in, 2, 5))

\* C8 (as claimed): for every Int value up to the 4-byte width the encoder
\* succeeds, and decoding the bytes it wrote consumes exactly those bytes and
\* yields the value again.
C8_EncodeRoundTrip ==
    /\ fx.mode = "encoded" => fx.ok
    /\ fx.mode = "reread" => (fx.ok /\ fx.used = Len(fx.enc) /\ fx.v = fx.in[1])

\* C9 (as claimed): a first byte c >= 0x80 other than 0xfc..0xff consumes no
\* further byte and yields c - 0x80 - 5.
C9_AsClaimed ==
    (fx.mode = "decoded" /\ fx.in[1] >= 128 /\ fx.in[1] < 252) =>
        (fx.ok /\ fx.used = 1 /\ fx.v = fx.in[1] - 128 - 5)

\* C9 (amended): a first byte c >= 0x80 other than 0xfc..0xff consumes no
\* further byte and yields 0x80 - c - 5, a negative value in -128..-5.
C9_SmallNegative ==
    (fx.mode = "decoded" /\ fx.in[1] >= 128 /\ fx.in[1] < 252) =>
        /\ fx.ok
        /\ fx.used = 1
        /\ fx.v = 128 - fx.in[1] - 5
        /\ fx.v \in -128..-5

\* the byte 0xfa has been decoded as a fixnum
C9_Witness ==
    fx.mode = "decoded" /\ fx.in[1] = 250 /\ fx.ok /\ fx.v = -127 /\ fx.used = 1

(***************************************************************************)
(* Properties of Spec                                                      *)
(***************************************************************************)
IsPrefix(a, b) == Len(a) <= Len(b) /\ SubSeq(b, 1, Len(a)) = a

\* documents of the Marshal 4.8 format that decode accepts
Corpus ==
    {<<4, 8, TagTrue>>, <<4, 8, TagFalse>>, <<4, 8, TagNone>>,
     <<4, 8, TagInt, 0>>, <<4, 8, TagString, 0>>, <<4, 8, TagArray, 0>>,
     <<4, 8, TagArray, 7, TagTrue, TagFalse>>,
     <<4, 8, TagObjectWithInstanceVars, TagString, 6, 69, 6, TagSymbol, 6, 69, TagTrue>>,
     <<4, 8, TagArray, 7,
       TagObjectWithInstanceVars, TagString, 6, 69, 6, TagSymbol, 6, 69, TagTrue,
       TagObjectWithInstanceVars, TagString, 6, 69, 6, TagSymbolReference, 0, TagTrue>>}

\* C1 (as claimed): when a document of the corpus has been decoded and the
\* value returned has been encoded, the encoder has succeeded and the bytes
\* written are the bytes of the document.
C1_ByteRoundTrip ==
    (phase = "written" /\ consumed \in Corpus) => (mok /\ out = consumed)

\* C2 (as claimed): when the first decode returned a list, the decode of the
\* bytes written for it returns a list of the same length whose items are
\* pairwise equal to the items of the first.
C2_ListRoundTrip ==
    (round = 2 /\ phase = "host" /\ host1.t = "list") =>
        /\ status = "returned"
        /\ host.t = "list"
        /\ Len(host.items) = Len(host1.items)
        /\ \A i \in 1..Len(host1.items) : host.items[i] = host1.items[i]

\* C3: a symbol reference (an object reference) with index i that the
\* decoder accepted returned entry i, counted from 0, of the symbol table
\* (the object table), and that entry was in the table when the handler of
\* the tag started.
C3_ReferenceResolves ==
    (phase = "decode" /\ log.op \in {"symref", "objref"} /\ log.res # NULL) =>
        LET table == IF log.op = "symref" THEN symbols ELSE objects
        IN /\ 0 <= log.ref
           /\ log.ref < log.size
           /\ log.size <= Len(table)
           /\ table[log.ref + 1] = log.res
           /\ heap[log.res].regid = log.ref
           /\ heap[log.res].regkind = (IF log.op = "symref" THEN "symbol" ELSE "object")

\* an object reference with index 1 has been resolved in a table of two
C3_Witness ==
    /\ phase = "decode"
    /\ log.op = "objref"
    /\ log.res # NULL
    /\ log.ref = 1
    /\ log.size = 2

\* C4 (as claimed): after a reference whose index is out of range no value
\* is returned and the decode has returned an error.
C4_BadReferenceFails ==
    (phase = "decode" /\ log.op \in {"symref", "objref"} /\ log.res = NULL) =>
        (status = "error" /\ root = NULL)

\* C5 (as claimed): the instance made for the k-th tag, counted from 0 in
\* stream order, of the tags that introduce an object is entry k of the
\* object table.
C5_ObjectIndexOrder ==
    phase = "decode" =>
        \A k \in 1..Len(log.tags) :
            log.tags[k] # NULL =>
                /\ heap[log.tags[k]].regkind = "object"
                /\ heap[log.tags[k]].regid = k - 1
                /\ objects[k] = log.tags[k]

\* C6 (as claimed): when the source ends inside a byte sequence the decode
\* returns an error.
C6_TruncatedFails ==
    (phase = "decode" /\ log.op = "truncated") => status = "error"

\* C10: while a decode runs, every step leaves each of the three tables a
\* prefix of what it is after the step.
C10_AppendOnly ==
    [][(phase = "decode" /\ status \in {"sig", "run"}) =>
           /\ IsPrefix(symbols, symbols')
           /\ IsPrefix(objects, objects')
           /\ IsPrefix(ephemerals, ephemerals')]_vars

\* a decode has failed inside a nested value with entries in the symbol
\* table and in the object table
C10_Witness ==
    /\ phase = "decode"
    /\ status = "error"
    /\ Len(symbols) >= 1
    /\ Len(objects) >= 2

(***************************************************************************)
(* SpecEncode: a process that calls the encoder again and again.  Each call *)
(* gets a context of its own holding a graph of strings and arrays, runs   *)
(* marshal48_marshal_io on its first instance, and the file written is     *)
(* then decoded.  The static e_sym_id lives as long as the process.        *)
(***************************************************************************)
MaxNodes == 4        \* instances of the graph handed to one encode call

EncStrings == {<<>>, <<69>>}

\* the items of array number i of the graph: none, one or two of the
\* instances created after it, one of them twice and then another, or the
\* array itself
ItemSeqs(i) ==
    {<<>>, <<i>>} \cup {<<a>> : a \in (i + 1)..MaxNodes}
    \cup {<<a, b>> : a \in (i + 1)..MaxNodes, b \in (i + 1)..MaxNodes}
    \cup {<<a, a, b>> : a \in (i + 1)..MaxNodes, b \in (i + 2)..MaxNodes}

\* instance number i of a context that holds strings and arrays only
NodeChoices(i) ==
    {[Instance("String") EXCEPT !.str = str, !.regkind = "object", !.regid = i - 1] :
         str \in EncStrings}
    \cup {[Instance("Array") EXCEPT !.items = q, !.regkind = "object", !.regid = i - 1] :
              q \in ItemSeqs(i)}

\* instance j is an item of an array that the first instance leads to
RECURSIVE Reached(_, _)
Reached(g, j) ==
    \/ j = 1
    \/ \E i \in 1..(j - 1) :
           /\ Reached(g, i)
           /\ g[i].type = "Array"
           /\ \E k \in 1..Len(g[i].items) : g[i].items[k] = j

\* the contexts of n instances, built in the order of creation
RECURSIVE Contexts(_)
Contexts(n) ==
    IF n = 0 THEN {<<>>}
    ELSE {Append(g, c) : g \in Contexts(n - 1), c \in NodeChoices(n)}

\* the graphs handed to the encoder; an instance the first one does not lead
\* to has no part in the call and is left an empty string
EncodeGraphs ==
    {h : h \in {g \in Contexts(MaxNodes) :
                    \A i \in 1..MaxNodes :
                        ~Reached(g, i) => g[i].type = "String" /\ g[i].str = <<>>}}

\* ruby_Array_marshal goes through the items of an array whether the array
\* was written in full or as a reference: on a graph in which an array is
\* reached from itself the recursion has no end
RECURSIVE Recurs(_, _, _)
Recurs(g, r, path) ==
    \/ r \in path
    \/ /\ g[r].type = "Array"
       /\ \E i \in 1..Len(g[r].items) : Recurs(g, g[r].items[i], path \cup {r})

\* one encode call, and the file it wrote opened for reading; a call that
\* never returns ends the process when the C stack is used up
EncodeCall ==
    /\ phase = "encode"
    /\ status = "idle"
    /\ \E g \in EncodeGraphs :
           IF Recurs(g, 1, {})
           THEN /\ encoding' = [earlier |-> encoding.earlier, heap |-> g,
                                root |-> 1, ok |-> FALSE, ev |-> <<>>,
                                esym |-> e_sym_id]
                /\ status' = "crash"
                /\ phase' = "encode"
                /\ UNCHANGED <<out, mok, e_sym_id, file>>
           ELSE LET r == marshal48_marshal_io(g, 1, e_sym_id)
                IN /\ encoding' = [earlier |-> encoding.earlier, heap |-> r.e.heap,
                                   root |-> 1, ok |-> r.ok, ev |-> r.e.ev,
                                   esym |-> e_sym_id]
                   /\ out' = r.e.out
                   /\ mok' = r.ok
                   /\ e_sym_id' = r.e.e_sym_id
                   /\ file' = [rest |-> r.e.out, budget |-> 0]
                   /\ phase' = "decode"
                   /\ status' = "sig"
    /\ UNCHANGED <<reader, consumed, stack, heap, symbols, objects, ephemerals,
                   corrupt, root, log, round, host, host1, doc1, fx, placed, gemvars>>

\* the end of the decode of the written file: ruby_unmarshal_free lets go of
\* the reader, the caller frees the context, and of the round only the
\* static e_sym_id is left in the process
ruby_unmarshal_free ==
    /\ phase = "decode"
    /\ status \in {"ok", "error"}
    /\ file' = [rest |-> <<>>, budget |-> 0]
    /\ reader' = [data |-> <<>>, pos |-> 0]
    /\ consumed' = <<>>
    /\ stack' = <<>>
    /\ heap' = <<>>
    /\ symbols' = <<>>
    /\ objects' = <<>>
    /\ ephemerals' = <<>>
    /\ corrupt' = {}
    /\ status' = "idle"
    /\ root' = NULL
    /\ log' = NoLog
    /\ phase' = "encode"
    /\ out' = <<>>
    /\ mok' = FALSE
    /\ encoding' = [NoEnc EXCEPT !.earlier = TRUE]
    /\ UNCHANGED <<round, host, host1, doc1, e_sym_id, fx, placed, gemvars>>

InitEncode ==
    /\ file = [rest |-> <<>>, budget |-> 0]
    /\ reader = [data |-> <<>>, pos |-> 0]
    /\ consumed = <<>>
    /\ stack = <<>>
    /\ heap = <<>>
    /\ symbols = <<>>
    /\ objects = <<>>
    /\ ephemerals = <<>>
    /\ corrupt = {}
    /\ status = "idle"
    /\ root = NULL
    /\ log = NoLog
    /\ round = 0
    /\ phase = "encode"
    /\ host = HV("none")
    /\ host1 = HV("none")
    /\ doc1 = <<>>
    /\ out = <<>>
    /\ mok = FALSE
    /\ e_sym_id = -1
    /\ fx = NoFix
    /\ encoding = NoEnc
    /\ placed = <<>>
    /\ bundler_ctx = NoContext
    /\ ps = NoParser
    /\ gem = NoGem
    /\ gemf = NoGemfile
    /\ ExtIdle

NextEncode ==
    \/ EncodeCall
    \/ marshal48_check_signature
    \/ DecodeTrue
    \/ DecodeSymbol
    \/ DecodeString
    \/ DecodeSymbolReference
    \/ DecodeObjectReference
    \/ DecodeArray
    \/ DecodeObjectWithInstanceVars
    \/ ruby_unmarshal_free

SpecEncode == InitEncode /\ [][NextEncode]_vars

(***************************************************************************)
(* Properties of SpecEncode.  encoding.ev lists what the call did in the   *)
(* order it did it: "obj" and "sym" where an id was given and the full     *)
(* form begun, "objref" and "symref" where a reference was written, "done" *)
(* where the marshal member of an instance returned; at is the length of   *)
(* the output at that moment.                                              *)
(***************************************************************************)
Ev == encoding.ev

\* the bytes written between event j and the event after it
WrittenAt(j) ==
    SubSeq(out, Ev[j].at + 1, IF j < Len(Ev) THEN Ev[j + 1].at ELSE Len(out))

\* the bytes b are what was written first after event j
WrittenFrom(j, b) ==
    /\ Ev[j].at + Len(b) <= Len(out)
    /\ SubSeq(out, Ev[j].at + 1, Ev[j].at + Len(b)) = b

ReferenceBytes(tag, id) == <<tag>> \o ruby_marshal_fixnum(id).bytes

\* C11 (as claimed): once an instance or a symbol has been given an id in a
\* call, each later occurrence of it in that call writes the reference tag
\* and that id, and for an instance that is all the occurrence writes.
C11_LaterOccurrenceIsReference ==
    \A i \in 1..Len(Ev) : \A j \in (i + 1)..Len(Ev) :
        /\ (Ev[i].k = "obj" /\ Ev[j].k \in {"obj", "objref"} /\ Ev[j].what = Ev[i].what) =>
               /\ Ev[j].k = "objref"
               /\ Ev[j].id = Ev[i].id
               /\ WrittenAt(j) = ReferenceBytes(TagObjectReference, Ev[i].id)
               /\ j < Len(Ev)
               /\ Ev[j + 1].k = "done"
               /\ Ev[j + 1].what = Ev[i].what
        /\ (Ev[i].k = "sym" /\ Ev[j].k \in {"sym", "symref"} /\ Ev[j].what = Ev[i].what) =>
               /\ Ev[j].k = "symref"
               /\ Ev[j].id = Ev[i].id
               /\ WrittenFrom(j, ReferenceBytes(TagSymbolReference, Ev[i].id))

\* the events of kind k, in the order of the call
EvOf(k) == SelectSeq(Ev, LAMBDA x : x.k = k)

\* the written file has been decoded to its end or to an error
Decoded == phase = "decode" /\ status \in {"ok", "error"}

\* C12 (as claimed): after the decode of the output of a call that succeeded,
\* the k-th instance the call wrote in full is the instance the decoder made
\* for the k-th object tag and its id is the index the decoder registered
\* that instance under; the id of a symbol written in full is the index of
\* the symbol of that name in the symbol table of the decoder.
C12_IdIsDecoderIndex ==
    (Decoded /\ encoding.ok) =>
        /\ \A k \in 1..Len(EvOf("obj")) :
               /\ k <= Len(log.tags)
               /\ log.tags[k] # NULL
               /\ heap[log.tags[k]].regkind = "object"
               /\ heap[log.tags[k]].regid = EvOf("obj")[k].id
               /\ heap[log.tags[k]].type = encoding.heap[EvOf("obj")[k].what].type
        /\ \A k \in 1..Len(EvOf("sym")) :
               /\ EvOf("sym")[k].id < Len(symbols)
               /\ heap[symbols[EvOf("sym")[k].id + 1]].str = EvOf("sym")[k].what

\* the number of events of kind k before event j
Before(j, k) == Cardinality({i \in 1..(j - 1) : Ev[i].k = k})

\* C13 (as claimed): in the output of every call the index of an object
\* reference is below the number of instances written in full before it and
\* the index of a symbol reference is below the number of symbols written in
\* full before it.
C13_ReferencesPointBack ==
    \A j \in 1..Len(Ev) :
        /\ Ev[j].k = "objref" =>
               /\ WrittenFrom(j, ReferenceBytes(TagObjectReference, Ev[j].id))
               /\ Ev[j].id < Before(j, "obj")
        /\ Ev[j].k = "symref" =>
               /\ WrittenFrom(j, ReferenceBytes(TagSymbolReference, Ev[j].id))
               /\ Ev[j].id < Before(j, "sym")

\* C14 (as claimed): in the output of every call a symbol is written in
\* full at most once, and every reference to it comes after that and carries
\* the number of symbols written in full before it.
C14_SymbolWrittenOnce ==
    \A j \in 1..Len(Ev) :
        /\ Ev[j].k = "sym" =>
               /\ WrittenFrom(j, <<TagSymbol>> \o ruby_marshal_fixnum(Len(Ev[j].what)).bytes
                                   \o Ev[j].what)
               /\ \A i \in 1..(j - 1) : ~(Ev[i].k = "sym" /\ Ev[i].what = Ev[j].what)
        /\ Ev[j].k = "symref" =>
               \E i \in 1..(j - 1) :
                   /\ Ev[i].k = "sym"
                   /\ Ev[i].what = Ev[j].what
                   /\ Ev[j].id = Before(i, "sym")

\* the first event of the call that is of one of the kinds ks
First(ks) ==
    LET at == {j \in 1..Len(Ev) : Ev[j].k \in ks}
    IN IF at = {} THEN [k |-> "none", id |-> -1]
       ELSE Ev[CHOOSE j \in at : \A i \in at : j <= i]

\* C15 (as claimed): in every call of a process, the first instance and the
\* first symbol the call writes are written in full with id 0.
C15_IdsRestart ==
    /\ First({"obj", "objref"}).k # "none" =>
           First({"obj", "objref"}).k = "obj" /\ First({"obj", "objref"}).id = 0
    /\ First({"sym", "symref"}).k # "none" =>
           First({"sym", "symref"}).k = "sym" /\ First({"sym", "symref"}).id = 0

(***************************************************************************)
(* Properties of the projection                                            *)
(***************************************************************************)

\* C16 (as claimed): in a projection that was returned, an instance has the
\* same host object at every position it was converted for.
C16_OneHostObject ==
    \A p \in 1..Len(placed) : \A q \in 1..Len(placed) :
        placed[p].inst = placed[q].inst => placed[p].obj = placed[q].obj

\* what ruby_instance_set_var was handed for object obj, in order
AppliedTo(obj) == SelectSeq(log.applied, LAMBDA x : x.obj = obj)

\* the decode has returned an object that keeps instance variables
ObjectDecoded ==
    /\ phase = "decode"
    /\ status = "ok"
    /\ root \notin Statics \cup {NULL}
    /\ IsA(heap[root].type, "GenericObject")

ruby_array_destroy(array) == array

\* ruby_context_free: the three tables of the context are destroyed
ruby_context_free == ruby_array_destroy(symbols) \o ruby_array_destroy(objects)
                         \o ruby_array_destroy(ephemerals)

\* C18 (as claimed): when the context of a decode is freed, every instance
\* made during the decode is handed to its del member exactly once, and none
\* has been released before.
C18_DestroyedOnce ==
    [][(phase = "decode" /\ phase' = "host") =>
           \A r \in 1..Len(heap) :
               /\ Cardinality({i \in 1..Len(ruby_context_free) : ruby_context_free[i] = r}) = 1
               /\ r \notin corrupt
       ]_vars

(***************************************************************************)
(* SpecGemfile: the Gemfile evaluator of the bundler module.  The host     *)
(* builds a context (or passes none), then bundler_gemfile_parse evaluates *)
(* a file whose statements the environment supplies one at a time.  The    *)
(* recursion of the parser (do blocks, eval_gemfile) is kept as ps.frames: *)
(* one frame per C frame that holds a saved execute flag.                  *)
(***************************************************************************)

MaxGroupCalls == 2
MaxBlocks == 2

\* the names the host passes to with_group / without_group
GroupNames == {"default", "test"}

\* the symbol lists of the group statements of the file
GroupLists == {<<"test">>, <<"default">>, <<"development", "test">>}

\* the symbol lists of the platforms statements of the file
PlatformLists == {<<"ruby">>, <<"jruby">>}

\* the group / groups option of a gem statement, as a list of strings
GemGroupLists == {<<>>, <<"test">>}

\* the platform / platforms option of a gem statement
GemPlatformLists == {<<>>, <<"jruby">>}

\* Context("2.5.0")
bundler_context_new ==
    [null |-> FALSE,
     platforms |-> <<"ruby", "mri", "ruby_25", "mri_25">>,
     with_groups |-> <<"default">>,
     without_groups |-> <<>>]

string_array_contains(array, value) ==
    \E i \in 1..Len(array) : array[i] = value

bundler_context_match_platform(ctx, names) ==
    IF Len(names) = 0
    THEN TRUE
    ELSE \E i \in 1..Len(names) : string_array_contains(ctx.platforms, names[i])

\* the group match with the disabled set left out
match_group_enabled_only(ctx, names) ==
    IF Len(names) = 0
    THEN string_array_contains(ctx.with_groups, "default")
    ELSE \E i \in 1..Len(names) : string_array_contains(ctx.with_groups, names[i])

bundler_context_match_group(ctx, names) ==
    IF Len(names) = 0
    THEN string_array_contains(ctx.with_groups, "default")
    ELSE LET with == \E i \in 1..Len(names) :
                         string_array_contains(ctx.with_groups, names[i])
             without == \E i \in 1..Len(names) :
                            string_array_contains(ctx.without_groups, names[i])
         IN  IF without THEN FALSE ELSE with

\* the gem's own platform list applied, its group list not
apply_context_platform_only(g, ctx) ==
    [g EXCEPT !.ignore = g.ignore \/ ~bundler_context_match_platform(ctx, g.platform)]

bundler_gem_apply_context(g, ctx) ==
    LET noplatform == ~bundler_context_match_platform(ctx, g.platform)
        strings == IF Len(g.group) = 0 THEN <<"default">> ELSE g.group
        nogroup == ~bundler_context_match_group(ctx, strings)
    IN  [g EXCEPT !.ignore = g.ignore \/ noplatform \/ nogroup]

\* a handler returned false: every frame returns in turn, each do block
\* restoring its saved flag, and bundler_gemfile_parse returns NULL
Unwound(p) ==
    [status |-> "failed",
     execute |-> IF Len(p.frames) = 0 THEN p.execute ELSE p.frames[1].execute,
     frames |-> <<>>]

Evaluating == phase = "gemfile" /\ ps.status = "run"

OtherVars == <<file, reader, consumed, stack, heap, symbols, objects, ephemerals,
               corrupt, status, root, log, round, phase, host, host1, doc1, out,
               mok, e_sym_id, fx, encoding, placed, extvars>>

bundler_context_with_group ==
    /\ phase = "gemfile" /\ ps.status = "host" /\ ~bundler_ctx.null
    /\ Len(bundler_ctx.with_groups) - 1 + Len(bundler_ctx.without_groups) < MaxGroupCalls
    /\ \E name \in GroupNames :
           bundler_ctx' = [bundler_ctx EXCEPT !.with_groups = Append(@, name)]
    /\ UNCHANGED <<ps, gem, gemf, OtherVars>>

bundler_context_without_group ==
    /\ phase = "gemfile" /\ ps.status = "host" /\ ~bundler_ctx.null
    /\ Len(bundler_ctx.with_groups) - 1 + Len(bundler_ctx.without_groups) < MaxGroupCalls
    /\ \E name \in GroupNames :
           bundler_ctx' = [bundler_ctx EXCEPT !.without_groups = Append(@, name)]
    /\ UNCHANGED <<ps, gem, gemf, OtherVars>>

\* Gemfile(path, context): the file opens or it does not
bundler_gemfile_parse ==
    /\ phase = "gemfile" /\ ps.status = "host"
    /\ \E opened \in BOOLEAN :
           ps' = IF opened
                 THEN [status |-> "run", execute |-> TRUE, frames |-> <<>>]
                 ELSE [status |-> "failed", execute |-> FALSE, frames |-> <<>>]
    /\ UNCHANGED <<bundler_ctx, gem, gemf, OtherVars>>

\* group :G1, ... followed by the end of the line or by do
gemfile_parser_process_group ==
    /\ Evaluating
    /\ \E group_names \in GroupLists : \E do \in BOOLEAN :
           IF ~do
           THEN ps' = ps
           ELSE /\ Len(ps.frames) < MaxBlocks
                /\ LET execute == ps.execute
                       frame == [fn |-> "gemfile_parser_process_group",
                                 names |-> group_names, execute |-> execute]
                   IN  IF ~execute
                       THEN ps' = [ps EXCEPT !.frames = Append(@, frame)]
                       ELSE IF bundler_ctx.null
                       THEN ps' = [ps EXCEPT !.status = "crash"]
                       ELSE IF ~bundler_context_match_group(bundler_ctx, group_names)
                       THEN ps' = [ps EXCEPT !.execute = FALSE,
                                             !.frames = Append(@, frame)]
                       ELSE ps' = [ps EXCEPT !.frames = Append(@, frame)]
    /\ UNCHANGED <<bundler_ctx, gem, gemf, OtherVars>>

\* platforms :P1, ... followed by the end of the line or by do
gemfile_parser_process_platform ==
    /\ Evaluating
    /\ \E platform_names \in PlatformLists : \E do \in BOOLEAN :
           IF ~do
           THEN ps' = ps
           ELSE /\ Len(ps.frames) < MaxBlocks
                /\ LET execute == ps.execute
                       frame == [fn |-> "gemfile_parser_process_platform",
                                 names |-> platform_names, execute |-> execute]
                   IN  IF ~execute
                       THEN ps' = [ps EXCEPT !.frames = Append(@, frame)]
                       ELSE IF bundler_ctx.null
                       THEN ps' = [ps EXCEPT !.status = "crash"]
                       ELSE IF ~bundler_context_match_platform(bundler_ctx, platform_names)
                       THEN ps' = [ps EXCEPT !.execute = FALSE,
                                             !.frames = Append(@, frame)]
                       ELSE ps' = [ps EXCEPT !.frames = Append(@, frame)]
    /\ UNCHANGED <<bundler_ctx, gem, gemf, OtherVars>>

\* gem NAME with its platform and group options
gemfile_parser_process_gem ==
    /\ Evaluating
    /\ \E platform \in GemPlatformLists : \E group \in GemGroupLists :
           LET g == [declared |-> TRUE, ignore |-> ~ps.execute,
                     execute |-> ps.execute, platform |-> platform, group |-> group]
           IN  gem' = IF bundler_ctx.null THEN g
                      ELSE bundler_gem_apply_context(g, bundler_ctx)
    /\ UNCHANGED <<bundler_ctx, ps, gemf, OtherVars>>

\* source URL
gemfile_parser_process_source ==
    /\ Evaluating
    /\ gemf' = IF ps.execute THEN [gemf EXCEPT !.source = "https://rubygems.org"]
               ELSE gemf
    /\ UNCHANGED <<bundler_ctx, ps, gem, OtherVars>>

\* gemspec: bundler_gemfile_add_gemspec has an empty body
gemfile_parser_process_gemspec ==
    /\ Evaluating
    /\ UNCHANGED <<bundler_ctx, ps, gem, gemf, OtherVars>>

\* eval_gemfile PATH: a parser state of its own evaluates the named file
gemfile_parser_process_include ==
    /\ Evaluating
    /\ Len(ps.frames) < MaxBlocks
    /\ \E opened \in BOOLEAN :
           ps' = IF opened
                 THEN [ps EXCEPT !.execute = TRUE,
                                 !.frames = Append(@, [fn |-> "__bundler_gemfile_eval",
                                                       names |-> <<>>,
                                                       execute |-> ps.execute])]
                 ELSE Unwound(ps)
    /\ UNCHANGED <<bundler_ctx, gem, gemf, OtherVars>>

\* end handled without the restore of the saved flag
do_block_keeps_flag ==
    /\ Evaluating
    /\ Len(ps.frames) > 0
    /\ LET frame == ps.frames[Len(ps.frames)]
       IN  /\ frame.fn # "__bundler_gemfile_eval"
           /\ ps' = [ps EXCEPT !.frames = SubSeq(@, 1, Len(@) - 1)]
    /\ UNCHANGED <<bundler_ctx, gem, gemf, OtherVars>>

\* end handled with the flag switched on again
do_block_resumes_executing ==
    /\ Evaluating
    /\ Len(ps.frames) > 0
    /\ LET frame == ps.frames[Len(ps.frames)]
       IN  /\ frame.fn # "__bundler_gemfile_eval"
           /\ ps' = [ps EXCEPT !.execute = TRUE,
                               !.frames = SubSeq(@, 1, Len(@) - 1)]
    /\ UNCHANGED <<bundler_ctx, gem, gemf, OtherVars>>

\* end: the do block returns to the group or platforms statement that opened it
gemfile_parser_process_do_block ==
    /\ Evaluating
    /\ Len(ps.frames) > 0
    /\ LET frame == ps.frames[Len(ps.frames)]
       IN  /\ frame.fn # "__bundler_gemfile_eval"
           /\ ps' = [ps EXCEPT !.execute = frame.execute,
                               !.frames = SubSeq(@, 1, Len(@) - 1)]
    /\ UNCHANGED <<bundler_ctx, gem, gemf, OtherVars>>

\* the end of a file outside every do block of that file
gemfile_parser_process_toplevel ==
    /\ Evaluating
    /\ IF Len(ps.frames) = 0
       THEN ps' = [ps EXCEPT !.status = "done"]
       ELSE LET frame == ps.frames[Len(ps.frames)]
            IN  /\ frame.fn = "__bundler_gemfile_eval"
                /\ ps' = [ps EXCEPT !.execute = frame.execute,
                                    !.frames = SubSeq(@, 1, Len(@) - 1)]
    /\ UNCHANGED <<bundler_ctx, gem, gemf, OtherVars>>

\* an unexpected token, an if, an unknown statement, a file that ends in a block
gemfile_parser_err_unexpected ==
    /\ Evaluating
    /\ ps' = Unwound(ps)
    /\ UNCHANGED <<bundler_ctx, gem, gemf, OtherVars>>

InitGemfile ==
    /\ file = [rest |-> <<>>, budget |-> 0]
    /\ reader = [data |-> <<>>, pos |-> 0]
    /\ consumed = <<>>
    /\ stack = <<>>
    /\ heap = <<>>
    /\ symbols = <<>>
    /\ objects = <<>>
    /\ ephemerals = <<>>
    /\ corrupt = {}
    /\ status = "idle"
    /\ root = NULL
    /\ log = NoLog
    /\ round = 0
    /\ phase = "gemfile"
    /\ host = HV("none")
    /\ host1 = HV("none")
    /\ doc1 = <<>>
    /\ out = <<>>
    /\ mok = FALSE
    /\ e_sym_id = -1
    /\ fx = NoFix
    /\ encoding = NoEnc
    /\ placed = <<>>
    /\ bundler_ctx \in {NoContext, bundler_context_new}
    /\ ps = [status |-> "host", execute |-> FALSE, frames |-> <<>>]
    /\ gem = NoGem
    /\ gemf = NoGemfile
    /\ ExtIdle

NextGemfile ==
    \/ bundler_context_with_group
    \/ bundler_context_without_group
    \/ bundler_gemfile_parse
    \/ gemfile_parser_process_group
    \/ gemfile_parser_process_platform
    \/ gemfile_parser_process_gem
    \/ gemfile_parser_process_source
    \/ gemfile_parser_process_gemspec
    \/ gemfile_parser_process_include
    \/ gemfile_parser_process_do_block
    \/ gemfile_parser_process_toplevel
    \/ gemfile_parser_err_unexpected

SpecGemfile == InitGemfile /\ [][NextGemfile]_vars

\* the rule as stated: the list taken as [default] when it is empty, some
\* name in the enabled set, no name in the disabled set
GroupMatchRule(ctx, names) ==
    LET list == IF names = <<>> THEN <<"default">> ELSE names
        enabled == {ctx.with_groups[i] : i \in 1..Len(ctx.with_groups)}
        disabled == {ctx.without_groups[i] : i \in 1..Len(ctx.without_groups)}
    IN  /\ \E i \in 1..Len(list) : list[i] \in enabled
        /\ \A i \in 1..Len(list) : list[i] \notin disabled

\* C19: in every environment the host can build, the group match made for a
\* group statement's names and the group filter applied to a gem's group
\* list (taken as [default] when the gem names no group) are true iff at
\* least one name is enabled and no name is disabled; the last gem's ignore
\* flag shows the filter's answer.
C19_GroupMatch ==
    ~bundler_ctx.null =>
        /\ \A names \in GroupLists :
               bundler_context_match_group(bundler_ctx, names)
                   = GroupMatchRule(bundler_ctx, names)
        /\ \A group \in GemGroupLists : \A g \in {[NoGem EXCEPT !.group = group]} :
               bundler_gem_apply_context(g, bundler_ctx).ignore
                   = ~GroupMatchRule(bundler_ctx, group)
        /\ (gem.declared /\ gem.execute /\ gem.platform = <<>>) =>
               gem.ignore = ~GroupMatchRule(bundler_ctx, gem.group)

\* a gem without a group option, declared where statements execute, ignored
\* because the host disabled the default group
C19_Witness ==
    /\ ~bundler_ctx.null
    /\ gem.declared /\ gem.execute
    /\ gem.group = <<>> /\ gem.platform = <<>>
    /\ string_array_contains(bundler_ctx.without_groups, "default")
    /\ gem.ignore

RECURSIVE BlockFlag(_)
\* the execute flag the statements of block k are due, counted from the file
\* handed to bundler_gemfile_parse: a file starts executing, a platforms block
\* narrows by the platform match, a group block by the rule above
BlockFlag(k) ==
    IF k = 0 THEN TRUE
    ELSE LET f == ps.frames[k]
         IN  CASE f.fn = "__bundler_gemfile_eval" -> TRUE
               [] f.fn = "gemfile_parser_process_group" ->
                      BlockFlag(k - 1) /\ GroupMatchRule(bundler_ctx, f.names)
               [] OTHER ->
                      BlockFlag(k - 1)
                          /\ bundler_context_match_platform(bundler_ctx, f.names)

\* C20: whenever the parser is at a statement of a group block's body (the
\* innermost open block is a group block, whatever was opened and closed
\* inside it before), the execute flag is the enclosing block's flag and
\* some name of the group enabled and no name of the group disabled.
C20_ExecuteInGroupBody ==
    (ps.status = "run" /\ Len(ps.frames) > 0
        /\ ps.frames[Len(ps.frames)].fn = "gemfile_parser_process_group") =>
        LET n == Len(ps.frames)
            G == ps.frames[n].names
            enclosing == BlockFlag(n - 1)
        IN  /\ ps.frames[n].execute = enclosing
            /\ ps.execute =
                   (enclosing
                    /\ (\E i \in 1..Len(G) :
                            string_array_contains(bundler_ctx.with_groups, G[i]))
                    /\ ~(\E i \in 1..Len(G) :
                            string_array_contains(bundler_ctx.without_groups, G[i])))

\* a group block nested in an executing group block, switched off only
\* because one of its names is disabled
C20_Witness ==
    /\ ps.status = "run" /\ Len(ps.frames) = 2
    /\ ps.frames[1].fn = "gemfile_parser_process_group"
    /\ ps.frames[2].fn = "gemfile_parser_process_group"
    /\ ps.frames[2].execute
    /\ ~ps.execute
    /\ \E i \in 1..Len(ps.frames[2].names) :
           string_array_contains(bundler_ctx.with_groups, ps.frames[2].names[i])

\* the statement being evaluated lies in a block that does not execute: the
\* flag is false, or it was false where an eval_gemfile now open was written
InBlockOff ==
    ps.status = "run"
        /\ (~ps.execute \/ \E k \in 1..Len(ps.frames) : ~ps.frames[k].execute)

\* C21 (as claimed): no statement evaluated inside a block whose execute flag
\* is false has an effect: it leaves the source as it was and the gem it adds,
\* if any, is ignored; this for source, gemspec, gem and the statements of a
\* file named by eval_gemfile.
C21_NoEffectWhenOff ==
    [][InBlockOff => (gemf'.source = gemf.source /\ (gem' # gem => gem'.ignore))]_vars

\* C22 (as claimed): a gem that names no platform and no group of its own,
\* declared in the body of a group :X block of the file handed to the parser,
\* is ignored iff X is not enabled or X is disabled.
C22_IgnoredIffGroupOff ==
    [][(/\ ps.status = "run" /\ Len(ps.frames) = 1
        /\ ps.frames[1].fn = "gemfile_parser_process_group"
        /\ Len(ps.frames[1].names) = 1
        /\ gem' # gem
        /\ gem'.platform = <<>> /\ gem'.group = <<>>)
       => LET X == ps.frames[1].names[1]
          IN  gem'.ignore = (~string_array_contains(bundler_ctx.with_groups, X)
                             \/ string_array_contains(bundler_ctx.without_groups, X))
      ]_vars

\* C23: under an environment, the gem added last in an executing block is
\* ignored iff its platform list is non-empty and shares no name with the
\* active platforms, or its group list, [default] when empty, fails the group
\* rule; a gem with group test is ignored when only default is enabled and is
\* not when default and test are enabled and none disabled.
C23_GemIgnore ==
    (~bundler_ctx.null /\ gem.declared /\ gem.execute) =>
        LET active == {bundler_ctx.platforms[i] : i \in 1..Len(bundler_ctx.platforms)}
            own == {gem.platform[i] : i \in 1..Len(gem.platform)}
            enabled == {bundler_ctx.with_groups[i] : i \in 1..Len(bundler_ctx.with_groups)}
        IN  /\ gem.ignore = ((own # {} /\ own \cap active = {})
                             \/ ~GroupMatchRule(bundler_ctx, gem.group))
            /\ (gem.group = <<"test">> /\ enabled = {"default"}) => gem.ignore
            /\ (gem.group = <<"test">> /\ gem.platform = <<>>
                    /\ enabled = {"default", "test"}
                    /\ bundler_ctx.without_groups = <<>>) => ~gem.ignore

\* a gem with group test, declared where statements execute, kept because the
\* host enabled test
C23_Witness ==
    /\ ~bundler_ctx.null
    /\ gem.declared /\ gem.execute
    /\ gem.group = <<"test">> /\ gem.platform = <<>>
    /\ string_array_contains(bundler_ctx.with_groups, "test")
    /\ bundler_ctx.without_groups = <<>>
    /\ ~gem.ignore

\* C26: a group or platforms statement with do saves the flag it finds, and
\* the end of its block, at any depth, sets the flag to that saved value, which
\* is again the flag the enclosing block is due.
C26_FlagRestored ==
    [][(ps.status = "run" /\ ps'.status = "run") =>
          /\ (Len(ps'.frames) = Len(ps.frames) + 1
                  /\ ps'.frames[Len(ps'.frames)].fn # "__bundler_gemfile_eval")
                 => ps'.frames[Len(ps'.frames)].execute = ps.execute
          /\ (Len(ps'.frames) = Len(ps.frames) - 1
                  /\ ps.frames[Len(ps.frames)].fn # "__bundler_gemfile_eval")
                 => /\ ps'.execute = ps.frames[Len(ps.frames)].execute
                    /\ ps'.execute = BlockFlag(Len(ps.frames) - 1)
      ]_vars

\* statements execute again in a group block after a block nested in it, in
\* which the last gem was declared without executing, has ended
C26_Witness ==
    /\ ps.status = "run" /\ Len(ps.frames) = 1
    /\ ps.frames[1].fn = "gemfile_parser_process_group"
    /\ ps.execute
    /\ gem.declared /\ ~gem.execute

(***************************************************************************)
(* SpecInclude: eval_gemfile over a fixed, finite set of finite files.     *)
(* Every __bundler_gemfile_eval in progress holds one open FILE and one    *)
(* parser state on the C stack; evals.open lists them, innermost last,     *)
(* with the line each has reached.                                         *)
(***************************************************************************)

MaxLines == 2
MaxOpen == 3

\* the files that exist
Files == {"a", "b"}

\* what a line can be: a gem, or eval_gemfile of a path (one names no file)
Lines == {[id |-> "gem", path |-> ""]}
             \cup {[id |-> "eval_gemfile", path |-> f] : f \in Files \cup {"missing"}}

RECURSIVE Texts(_)
\* the files of up to n lines
Texts(n) ==
    IF n = 0 THEN {<<>>}
    ELSE Texts(n - 1) \cup {Append(t, l) : t \in {u \in Texts(n - 1) : Len(u) = n - 1},
                                           l \in Lines}

Including == phase = "include" /\ evals.status = "run"

IncludeFrame == <<file, reader, consumed, stack, heap, symbols, objects, ephemerals,
                  corrupt, status, root, log, round, phase, host, host1, doc1, out,
                  mok, e_sym_id, fx, encoding, placed, bundler_ctx, ps, gem, gemf,
                  files, tracing, rd, dict>>

\* the line the innermost evaluation is at, <<>> at the end of its file
Line == LET top == evals.open[Len(evals.open)]
        IN  IF top.pos > Len(files[top.path]) THEN <<>>
            ELSE <<files[top.path][top.pos]>>

\* the evaluations in progress with the innermost moved to its next line
Advanced == [evals.open EXCEPT ![Len(evals.open)].pos = @ + 1]

\* a gem line: the gem is added and the evaluation goes on
bundler_gemfile_add_gem ==
    /\ Including
    /\ Line # <<>> /\ Line[1].id = "gem"
    /\ evals' = [evals EXCEPT !.open = Advanced]
    /\ UNCHANGED IncludeFrame

\* an eval_gemfile line: fopen, then a new parser state evaluates the file;
\* fopen fails for a path that names no file and when the process has no
\* descriptor left, and the C stack can run out before the descriptors do
bundler_gemfile_eval ==
    /\ Including
    /\ Line # <<>> /\ Line[1].id = "eval_gemfile"
    /\ LET path == Line[1].path
       IN  IF path \notin Files
           THEN evals' = [status |-> "failed", open |-> <<>>]
           ELSE IF Len(evals.open) >= MaxOpen
           THEN \E end \in {"nofile", "crash"} :
                    evals' = [status |-> end, open |-> evals.open]
           ELSE evals' = [evals EXCEPT
                              !.open = Append(Advanced, [path |-> path, pos |-> 1])]
    /\ UNCHANGED IncludeFrame

\* the end of a file: its evaluation returns true to the eval_gemfile
\* statement that started it, or to bundler_gemfile_parse
bundler_gemfile_eval_return ==
    /\ Including
    /\ Line = <<>>
    /\ evals' = IF Len(evals.open) = 1
                THEN [status |-> "done", open |-> <<>>]
                ELSE [evals EXCEPT !.open = SubSeq(@, 1, Len(@) - 1)]
    /\ UNCHANGED IncludeFrame

InitInclude ==
    /\ file = [rest |-> <<>>, budget |-> 0]
    /\ reader = [data |-> <<>>, pos |-> 0]
    /\ consumed = <<>>
    /\ stack = <<>>
    /\ heap = <<>>
    /\ symbols = <<>>
    /\ objects = <<>>
    /\ ephemerals = <<>>
    /\ corrupt = {}
    /\ status = "idle"
    /\ root = NULL
    /\ log = NoLog
    /\ round = 0
    /\ phase = "include"
    /\ host = HV("none")
    /\ host1 = HV("none")
    /\ doc1 = <<>>
    /\ out = <<>>
    /\ mok = FALSE
    /\ e_sym_id = -1
    /\ fx = NoFix
    /\ encoding = NoEnc
    /\ placed = <<>>
    /\ bundler_ctx = NoContext
    /\ ps = NoParser
    /\ gem = NoGem
    /\ gemf = NoGemfile
    /\ tracing = NoTrace
    /\ rd = NoRead
    /\ dict = NoIndex
    /\ files \in [Files -> Texts(MaxLines)]
    /\ evals = [status |-> "run", open |-> <<[path |-> "a", pos |-> 1]>>]

NextInclude ==
    \/ bundler_gemfile_add_gem
    \/ bundler_gemfile_eval
    \/ bundler_gemfile_eval_return

SpecInclude == InitInclude /\ [][NextInclude]_vars

\* C28 (as claimed): whatever the files hold, a file naming itself or a file
\* that included it too, the evaluations nested in each other stay bounded by
\* the number of files, and the evaluation ends without running the process
\* out of descriptors or stack.
C28_NestingBounded ==
    phase = "include" =>
        /\ Len(evals.open) <= Cardinality(Files)
        /\ evals.status \notin {"nofile", "crash"}

(***************************************************************************)
(* SpecTrace: the trace states of one marshal48_unmarshal_io call.  Every  *)
(* decode of a value runs in __ruby_unmarshal_next_instance_logwrap, which *)
(* pushes a trace state, decodes, and pops.  tracing.states holds every    *)
(* ruby_trace_state allocated, tracing.cur is marshal->tracing (an index   *)
(* into states, NULL after a pop found no parent), tracing.calls the       *)
(* logwrap calls in progress.  The extension is built with assert active   *)
(* or, with NDEBUG in CCOPT, without.                                      *)
(***************************************************************************)

MaxNest == 3

\* ruby_trace_new(quiet), and the first line, printed unless quiet
ruby_trace_new(build, quiet) ==
    [status |-> "run", build |-> build, cur |-> 1,
     states |-> <<[id |-> 1, parent |-> NULL, indent |-> 0, quiet |-> quiet]>>,
     calls |-> <<>>,
     lines |-> IF quiet THEN <<>> ELSE <<[indent |-> 0, beneath |-> FALSE]>>]

\* the decode in progress was asked to be quiet, or one around it was, or
\* the whole call was
Silenced(t) ==
    t.states[1].quiet \/ \E k \in 1..Len(t.calls) : t.calls[k].quiet

\* the ruby_trace macro: a line unless the current state is quiet
ruby_trace(t) ==
    IF t.cur = NULL THEN [t EXCEPT !.status = "crash"]
    ELSE IF t.states[t.cur].quiet THEN t
    ELSE [t EXCEPT !.lines = Append(@, [indent |-> t.states[t.cur].indent,
                                        beneath |-> Silenced(t)])]

\* the child is calloc'ed: its parent is NULL, its indent 0 + 2, its quiet
\* false || quiet
ruby_trace_push(t, quiet) ==
    IF t.cur = NULL THEN [t EXCEPT !.status = "crash"]
    ELSE LET parent == t.states[t.cur]
             child == [id |-> parent.id + 1, parent |-> NULL,
                       indent |-> 0 + 2, quiet |-> FALSE \/ quiet]
         IN  [t EXCEPT !.states = Append(@, child),
                       !.cur = Len(t.states) + 1,
                       !.calls = Append(@, [saved_id |-> parent.id, quiet |-> quiet,
                                            entry |-> t.cur, child |-> Len(t.states) + 1])]

\* the pop of the innermost call: with assert active a NULL parent or a
\* parent of another id aborts; without, the parent becomes current as it is
ruby_trace_pop(t) ==
    IF t.cur = NULL THEN [t EXCEPT !.status = "crash"]
    ELSE LET id == t.calls[Len(t.calls)].saved_id
             parent == t.states[t.cur].parent
             bad == parent = NULL \/ t.states[parent].id # id
             rest == SubSeq(t.calls, 1, Len(t.calls) - 1)
         IN  IF t.build = "assert" /\ bad
             THEN [t EXCEPT !.status = "abort"]
             ELSE [t EXCEPT !.cur = parent, !.calls = rest,
                            !.status = IF rest = <<>> THEN "done" ELSE "run"]

Tracing == phase = "trace" /\ tracing.status = "run"

TraceFrame == <<file, reader, consumed, stack, heap, symbols, objects, ephemerals,
                corrupt, status, root, log, round, phase, host, host1, doc1, out,
                mok, e_sym_id, fx, encoding, placed, bundler_ctx, ps, gem, gemf,
                inclvars, rd, dict>>

\* a value is to be decoded: the push, then the type byte and, if it names a
\* type, the process(...) line; keys and values of instance variables are
\* decoded quiet, everything else not
LogwrapEnter ==
    /\ Tracing
    /\ Len(tracing.calls) < MaxNest
    /\ \E quiet \in BOOLEAN : \E known \in BOOLEAN :
           /\ quiet => Len(tracing.calls) > 0
           /\ LET pushed == ruby_trace_push(tracing, quiet)
              IN  tracing' = IF pushed.status = "run" /\ known
                             THEN ruby_trace(pushed) ELSE pushed
    /\ UNCHANGED TraceFrame

\* the innermost decode returns: the Returning line if it has a value, then
\* the pop
LogwrapLeave ==
    /\ Tracing
    /\ Len(tracing.calls) > 0
    /\ \E ok \in BOOLEAN :
           LET traced == IF ok THEN ruby_trace(tracing) ELSE tracing
           IN  tracing' = IF traced.status = "run"
                          THEN ruby_trace_pop(traced) ELSE traced
    /\ UNCHANGED TraceFrame

InitTrace ==
    /\ file = [rest |-> <<>>, budget |-> 0]
    /\ reader = [data |-> <<>>, pos |-> 0]
    /\ consumed = <<>>
    /\ stack = <<>>
    /\ heap = <<>>
    /\ symbols = <<>>
    /\ objects = <<>>
    /\ ephemerals = <<>>
    /\ corrupt = {}
    /\ status = "idle"
    /\ root = NULL
    /\ log = NoLog
    /\ round = 0
    /\ phase = "trace"
    /\ host = HV("none")
    /\ host1 = HV("none")
    /\ doc1 = <<>>
    /\ out = <<>>
    /\ mok = FALSE
    /\ e_sym_id = -1
    /\ fx = NoFix
    /\ encoding = NoEnc
    /\ placed = <<>>
    /\ bundler_ctx = NoContext
    /\ ps = NoParser
    /\ gem = NoGem
    /\ gemf = NoGemfile
    /\ files = <<>>
    /\ evals = NoEvals
    /\ rd = NoRead
    /\ dict = NoIndex
    /\ \E build \in {"assert", "NDEBUG"} : \E quiet \in BOOLEAN :
           tracing = ruby_trace_new(build, quiet)

NextTrace == LogwrapEnter \/ LogwrapLeave

SpecTrace == InitTrace /\ [][NextTrace]_vars

\* C24 (as claimed): no line is printed for a value decoded beneath a
\* silenced frame, at any depth.
C24_SilencePropagates ==
    \A l \in 1..Len(tracing.lines) : ~tracing.lines[l].beneath

\* C25 (as claimed): the state pushed for a decode has as parent the state
\* that was current on entry, the pop finds the parent with the id the push
\* returned, and after the pop the state current on entry is current again:
\* between decodes the current state is the one of the innermost call in
\* progress, the first state when there is none.
C25_TraceStackKept ==
    /\ tracing.status \notin {"abort", "crash"}
    /\ \A k \in 1..Len(tracing.calls) :
           /\ tracing.states[tracing.calls[k].child].parent = tracing.calls[k].entry
           /\ tracing.states[tracing.calls[k].entry].id = tracing.calls[k].saved_id
    /\ tracing.status \in {"run", "done"} =>
           tracing.cur = IF tracing.calls = <<>> THEN 1
                         ELSE tracing.calls[Len(tracing.calls)].child

(***************************************************************************)
(* SpecRead: one ruby_io over a source of fixed content that hands it out   *)
(* in reads of any length.  The caller asks for single bytes, for words    *)
(* and for byte sequences in any order.  rd.source is the content, rd.f    *)
(* what the source has not returned yet, rd.data/rd.pos the buffer,        *)
(* rd.seen every byte handed to the caller.  ruby_io_next_byteseq is       *)
(* taken one pass of its loop at a time: rd.op = "byteseq" while the call  *)
(* is in progress, rd.count its count argument (-1: a negative length,     *)
(* which the unsigned parameter makes larger than any source), rd.seq the  *)
(* bytes collected.  rd.last tells how the last finished call ended.       *)
(***************************************************************************)
MaxSource == 4       \* SpecRead: longest source

\* byte values; none above 127, so that a word of four of them is below 2^31
SourceBytes == {0, 4, 127}
WordSizes == {2, 3, 4}

Reading == phase = "read" /\ rd.status = "run"

ReadFrame == <<file, reader, consumed, stack, heap, symbols, objects, ephemerals,
               corrupt, status, root, log, round, phase, host, host1, doc1, out,
               mok, e_sym_id, fx, encoding, placed, bundler_ctx, ps, gem, gemf,
               inclvars, tracing, dict>>

RdIo == [f |-> rd.f, data |-> rd.data, pos |-> rd.pos, seen |-> rd.seen]

RdAfter(io, last) ==
    [rd EXCEPT !.f = io.f, !.data = io.data, !.pos = io.pos, !.seen = io.seen,
               !.last = last]

\* one pass of the while loop of ruby_io_next_byteseq: results [io, seq]
ruby_io_next_byteseq_pass(io, count, seq) ==
    {LET avail == Len(j.data) - j.pos
         copy  == IF count < 0 THEN avail ELSE Min(count - Len(seq), avail)
         got   == SubSeq(j.data, j.pos + 1, j.pos + copy)
     IN  [io  |-> [j EXCEPT !.pos = j.pos + copy, !.seen = j.seen \o got],
          seq |-> seq \o got]
     : j \in (IF io.pos >= Len(io.data) THEN ruby_io_fillbuf(io) ELSE {io})}

\* the caller reads one byte
ReadNextc ==
    /\ Reading
    /\ rd.op = "none"
    /\ \E r \in ruby_io_nextc(RdIo) :
           rd' = RdAfter(r.io, IF r.c < 0 THEN "eof" ELSE "byte")
    /\ UNCHANGED ReadFrame

\* the caller reads a word of 2, 3 or 4 bytes
ReadNextw ==
    /\ Reading
    /\ rd.op = "none"
    /\ \E count \in WordSizes : \E r \in ruby_io_nextw(RdIo, count, 0, 0) :
           rd' = RdAfter(r.io, IF r.ok THEN "word" ELSE "eof")
    /\ UNCHANGED ReadFrame

\* the caller asks for a byte sequence of a declared length
ReadByteseqCall ==
    /\ Reading
    /\ rd.op = "none"
    /\ \E count \in (-1)..(MaxSource + 1) :
           rd' = [rd EXCEPT !.op = "byteseq", !.count = count, !.seq = <<>>,
                            !.last = "call"]
    /\ UNCHANGED ReadFrame

\* the loop test of ruby_io_next_byteseq and, if it holds, one pass
ReadByteseqPass ==
    /\ Reading
    /\ rd.op = "byteseq"
    /\ IF ~(rd.count < 0 \/ Len(rd.seq) < rd.count)
       THEN rd' = [rd EXCEPT !.op = "none", !.last = "bytes"]
       ELSE \E r \in ruby_io_next_byteseq_pass(RdIo, rd.count, rd.seq) :
                rd' = [RdAfter(r.io, "pass") EXCEPT !.seq = r.seq]
    /\ UNCHANGED ReadFrame

InitRead ==
    /\ phase = "read"
    /\ file = [rest |-> <<>>, budget |-> 0]
    /\ reader = [data |-> <<>>, pos |-> 0]
    /\ consumed = <<>>
    /\ stack = <<>>
    /\ heap = <<>>
    /\ symbols = <<>>
    /\ objects = <<>>
    /\ ephemerals = <<>>
    /\ corrupt = {}
    /\ status = "idle"
    /\ root = NULL
    /\ log = NoLog
    /\ round = 0
    /\ host = HV("none")
    /\ host1 = HV("none")
    /\ doc1 = <<>>
    /\ out = <<>>
    /\ mok = FALSE
    /\ e_sym_id = -1
    /\ fx = NoFix
    /\ encoding = NoEnc
    /\ placed = <<>>
    /\ bundler_ctx = NoContext
    /\ ps = NoParser
    /\ gem = NoGem
    /\ gemf = NoGemfile
    /\ files = <<>>
    /\ evals = NoEvals
    /\ tracing = NoTrace
    /\ dict = NoIndex
    /\ \E source \in {<<>>} \cup SeqsOf(SourceBytes, MaxSource) :
           rd = [status |-> "run", source |-> source,
                 f |-> [rest |-> source, budget |-> 0, short |-> TRUE],
                 data |-> <<>>, pos |-> 0, seen |-> <<>>,
                 op |-> "none", count |-> 0, seq |-> <<>>, last |-> "none"]

NextRead == ReadNextc \/ ReadNextw \/ ReadByteseqCall \/ ReadByteseqPass

SpecRead == InitRead /\ [][NextRead]_vars

\* the reader as a sequential program: a call in progress goes on
SpecReadFair == InitRead /\ [][NextRead]_vars /\ WF_vars(ReadByteseqPass)

\* C27 (as claimed): a read of a byte sequence of any declared length ends,
\* also when the length is negative or larger than what the source has left;
\* the reader does not go on asking a source that has reported its end.
C27_ReadEnds == (rd.status = "run" /\ rd.op = "byteseq") ~> (rd.op = "none")

\* C29: the bytes handed to the caller, followed by the bytes waiting in the
\* buffer and the bytes the source has not returned yet, are the content of
\* the source: however the calls interleave and however the source cuts its
\* reads, every byte is delivered once and in order; and the byte sequence a
\* call is collecting is the end of what has been delivered.
C29_DeliveredInOrder ==
    phase = "read" =>
        /\ rd.seen \o SubSeq(rd.data, rd.pos + 1, Len(rd.data)) \o rd.f.rest = rd.source
        /\ rd.op = "byteseq" =>
               rd.seq = SubSeq(rd.seen, Len(rd.seen) - Len(rd.seq) + 1, Len(rd.seen))

\* a byte sequence longer than what the buffer held was returned complete,
\* after single bytes had been read, and the source is used up
C29_Witness ==
    /\ phase = "read"
    /\ rd.last = "bytes"
    /\ Len(rd.seq) > rd.pos
    /\ Len(rd.seq) < Len(rd.seen)
    /\ rd.seen = rd.source
    /\ Len(rd.source) = MaxSource

(***************************************************************************)
(* SpecIndex: the ruby_instancedict that ruby_String_get_cached and        *)
(* ruby_String_add_cache keep per converter.  A bucket is a record: a leaf *)
(* with its items in order, or an internal bucket with one child per       *)
(* value of the four hash bits at its shift (NoBucket for a NULL child).   *)
(* An item is a string instance: its content (key) and the hash stored in  *)
(* it.  Contents are numbered 1, 2, ... in the order the host presents     *)
(* them; dict.hashes gives the djb2 hash of each, chosen by the            *)
(* environment.  dict.build tells whether the asserts are compiled in.     *)
(***************************************************************************)
MaxStrings == 17     \* SpecIndex: strings the host presents
MaxOther == 1        \* SpecIndex: strings whose hash is not the common one

RUBY_ID_HASH_BITS == 32
RUBY_ID_HASH_SHIFT == 4
RUBY_ID_INSTANCES_PER_BUCKET == 16

\* pairs <<common hash, other hash>>: differing in bits 4..7 and in bits
\* 28..30; with no other string every hash is the common one
HashPairs == {<<0, 16>>, <<0, 268435456>>}

NoBucket == [type |-> "null"]
Abort == [type |-> "abort"]
Exhausted == [type |-> "crash"]

Failed(b) == b.type \in {"abort", "crash"}

\* ruby_id_bucket_new(RUBY_ID_BUCKET_TYPE_LEAF) with the shift its maker gives it
NewLeaf(shift) == [type |-> "leaf", shift |-> shift, items |-> <<>>]

\* (search_hash >> b->shift) & RUBY_ID_HASH_MASK
ChildIndex(hash, shift) == (hash \div (2 ^ shift)) % (2 ^ RUBY_ID_HASH_SHIFT)

\* __ruby_instancedict_find_leaf(b, hash, false): the leaf or NoBucket
RECURSIVE find_leaf(_, _)
find_leaf(b, hash) ==
    IF b.type = "internal"
    THEN LET child == b.children[ChildIndex(hash, b.shift)]
         IN  IF child.type = "null" THEN NoBucket ELSE find_leaf(child, hash)
    ELSE b

\* __ruby_string_instancedict_lookup_leaf: the first item of the leaf with
\* this hash and this content, NULL if there is none
RECURSIVE lookup_leaf(_, _, _)
lookup_leaf(items, hash, key) ==
    IF items = <<>> THEN NULL
    ELSE IF items[1].hash_value = hash /\ items[1].key = key THEN items[1].key
    ELSE lookup_leaf(Tail(items), hash, key)

\* ruby_string_instancedict_lookup: the content found, NULL for not found
ruby_string_instancedict_lookup(b, hash, key) ==
    LET leaf == find_leaf(b, hash)
    IN  IF leaf.type = "null" THEN NULL ELSE lookup_leaf(leaf.items, hash, key)

\* the child a new leaf gets made as: the assert of find_leaf on its shift
\* stops the process; without asserts a shift of 32 or more is used as it is
MadeChild(b, build) ==
    IF b.shift + RUBY_ID_HASH_SHIFT < RUBY_ID_HASH_BITS \/ build = "NDEBUG"
    THEN NewLeaf(b.shift + RUBY_ID_HASH_SHIFT)
    ELSE Abort

\* the second loop of ruby_id_bucket_split: the items of the former leaf are
\* put into the leaves under the new internal bucket b, in order
RECURSIVE split_place(_, _, _)
split_place(b, items, build) ==
    IF items = <<>> \/ Failed(b) THEN b
    ELSE LET i     == ChildIndex(items[1].hash_value, b.shift)
             child == IF b.children[i].type = "null" THEN MadeChild(b, build)
                      ELSE b.children[i]
         IN  IF Failed(child) THEN child
             ELSE split_place(
                      [b EXCEPT !.children[i] =
                           [child EXCEPT !.items = Append(child.items, items[1])]],
                      Tail(items), build)

\* ruby_id_bucket_split up to its return statement: the leaf b becomes an
\* internal bucket of the same shift.  A leaf at shift 28 fails the first
\* assert.  Without asserts it is split on bits 28..31 into leaves of shift
\* 32; the items of such a leaf have one and the same hash, so whatever a
\* shift by 32 or more gives, every split puts them into one leaf again and
\* the splitting goes on until the memory is used up.
ruby_id_bucket_split(b, build) ==
    IF build = "assert" /\ b.shift + RUBY_ID_HASH_SHIFT >= RUBY_ID_HASH_BITS
    THEN Abort
    ELSE IF b.shift >= RUBY_ID_HASH_BITS
    THEN Exhausted
    ELSE split_place([type |-> "internal", shift |-> b.shift,
                      children |-> [i \in 0..(2 ^ RUBY_ID_HASH_SHIFT - 1) |-> NoBucket]],
                     b.items, build)

\* ruby_string_instancedict_insert below bucket b: find the leaf, making it
\* if need be; split it while it is full; append the item
RECURSIVE bucket_insert(_, _, _)
bucket_insert(b, item, build) ==
    IF Failed(b) THEN b
    ELSE IF b.type = "internal"
    THEN LET i     == ChildIndex(item.hash_value, b.shift)
             child == IF b.children[i].type = "null" THEN MadeChild(b, build)
                      ELSE b.children[i]
             placed_in == bucket_insert(child, item, build)
         IN  IF Failed(placed_in) THEN placed_in
             ELSE [b EXCEPT !.children[i] = placed_in]
    ELSE IF Len(b.items) >= RUBY_ID_INSTANCES_PER_BUCKET
    THEN bucket_insert(ruby_id_bucket_split(b, build), item, build)
    ELSE [b EXCEPT !.items = Append(b.items, item)]

\* every item below a bucket, in the order of the children
RECURSIVE ItemsBelow(_, _)
ItemsBelow(b, i) ==
    IF b.type = "leaf" THEN b.items
    ELSE IF b.type = "internal"
    THEN IF i >= 2 ^ RUBY_ID_HASH_SHIFT THEN <<>>
         ELSE ItemsBelow(b.children[i], 0) \o ItemsBelow(b, i + 1)
    ELSE <<>>

RECURSIVE KeySets(_)
KeySets(k) ==
    IF k = 0 THEN {{}}
    ELSE KeySets(k - 1) \cup {S \cup {x} : S \in KeySets(k - 1), x \in 1..(MaxStrings + 1)}

Indexing == phase = "index" /\ dict.status = "run"

IndexFrame == <<file, reader, consumed, stack, heap, symbols, objects, ephemerals,
                corrupt, status, root, log, round, phase, host, host1, doc1, out,
                mok, e_sym_id, fx, encoding, placed, bundler_ctx, ps, gem, gemf,
                inclvars, tracing, rd>>

\* ruby_string_instancedict_lookup as ruby_String_get_cached calls it for the
\* host string with content key
IndexLookup ==
    /\ Indexing
    /\ \E key \in 1..(MaxStrings + 1) :
           dict' = [dict EXCEPT !.found =
                        [key |-> key,
                         res |-> ruby_string_instancedict_lookup(
                                     dict.root, dict.hashes[key], key)]]
    /\ UNCHANGED IndexFrame

\* ruby_string_instancedict_insert as ruby_String_add_cache calls it for the
\* next new content
IndexInsert ==
    /\ Indexing
    /\ dict.n < MaxStrings
    /\ LET key  == dict.n + 1
           item == [key |-> key, hash_value |-> dict.hashes[key]]
           made == bucket_insert(dict.root, item, dict.build)
       IN  dict' = IF Failed(made)
                   THEN [dict EXCEPT !.status = made.type,
                                     !.found = [key |-> NULL, res |-> NULL]]
                   ELSE [dict EXCEPT !.root = made, !.n = key,
                                     !.found = [key |-> NULL, res |-> NULL]]
    /\ UNCHANGED IndexFrame

InitIndex ==
    /\ phase = "index"
    /\ file = [rest |-> <<>>, budget |-> 0]
    /\ reader = [data |-> <<>>, pos |-> 0]
    /\ consumed = <<>>
    /\ stack = <<>>
    /\ heap = <<>>
    /\ symbols = <<>>
    /\ objects = <<>>
    /\ ephemerals = <<>>
    /\ corrupt = {}
    /\ status = "idle"
    /\ root = NULL
    /\ log = NoLog
    /\ round = 0
    /\ host = HV("none")
    /\ host1 = HV("none")
    /\ doc1 = <<>>
    /\ out = <<>>
    /\ mok = FALSE
    /\ e_sym_id = -1
    /\ fx = NoFix
    /\ encoding = NoEnc
    /\ placed = <<>>
    /\ bundler_ctx = NoContext
    /\ ps = NoParser
    /\ gem = NoGem
    /\ gemf = NoGemfile
    /\ files = <<>>
    /\ evals = NoEvals
    /\ tracing = NoTrace
    /\ rd = NoRead
    /\ \E build \in {"assert", "NDEBUG"} : \E pair \in HashPairs :
       \E others \in KeySets(MaxOther) :
           dict = [status |-> "run", build |-> build,
                   hashes |-> [k \in 1..(MaxStrings + 1) |->
                                  IF k \in others THEN pair[2] ELSE pair[1]],
                   root |-> [type |-> "internal", shift |-> 0,
                             children |-> [i \in 0..(2 ^ RUBY_ID_HASH_SHIFT - 1)
                                              |-> NoBucket]],
                   n |-> 0, found |-> [key |-> NULL, res |-> NULL]]

NextIndex == IndexLookup \/ IndexInsert

SpecIndex == InitIndex /\ [][NextIndex]_vars

\* C30 (as claimed): every insertion completes whatever the hashes are; the
\* index holds each inserted string once; looking up an inserted content
\* gives that string, looking up any other content gives NotFound.
C30_IndexComplete ==
    phase = "index" =>
        /\ dict.status = "run"
        /\ Len(ItemsBelow(dict.root, 0)) = dict.n
        /\ \A k \in 1..(MaxStrings + 1) :
               ruby_string_instancedict_lookup(dict.root, dict.hashes[k], k)
                   = IF k <= dict.n THEN k ELSE NULL
        /\ dict.found.key # NULL =>
               dict.found.res = IF dict.found.key <= dict.n THEN dict.found.key ELSE NULL

====
